---- MODULE Spec2Model ----
(***************************************************************************)
(* A model of the indexing and retrieval engine of vibe_cli: the chunker   *)
(* and scanner (infrastructure/src/file_scanner.rs), the embedding store   *)
(* (infrastructure/src/embedding_storage.rs), the similarity search        *)
(* (infrastructure/src/search.rs) and the orchestrator                     *)
(* (application/src/rag_service.rs).                                       *)
(*                                                                         *)
(* Representation of strings.  A byte string is a run-length encoded       *)
(* sequence of runs [sym, len]: len bytes, copies of the symbol sym, which  *)
(* is one byte or a character of CharWidth(sym) bytes.                     *)
(* Norm gives the canonical form (no empty run, no two neighbouring runs   *)
(* of one symbol), so two byte strings are equal iff their canonical forms *)
(* are.  A file's text is kept as the sequence of its paragraphs, which is *)
(* what text.split("\n\n") returns; each paragraph is a single run of a    *)
(* symbol other than the newline, possibly of length 0.                    *)
(***************************************************************************)
EXTENDS Integers, Sequences, FiniteSets, Bags, TLC

\* ------------------------------------------------------------------------
\* Byte strings
\* ------------------------------------------------------------------------

NL == "\n"

\* Bytes that occur in no UTF-8 text.
InvalidBytes == {"0xFF", "0xFE"}

\* U+FFFD, three bytes in UTF-8; U+00E9, two bytes.
REPLACEMENT_CHARACTER == "U+FFFD"
E_ACUTE == "U+00E9"

\* The number of bytes of the UTF-8 encoding of a symbol.
CharWidth(sym) ==
    IF sym = REPLACEMENT_CHARACTER THEN 3 ELSE IF sym = E_ACUTE THEN 2 ELSE 1

Run(s, n) == [sym |-> s, len |-> n]

\* The separator of text.split("\n\n") and of current_chunk.push_str("\n\n").
NL2 == Run(NL, 2)

RECURSIVE Norm(_)
Norm(rle) ==
    IF rle = <<>> THEN <<>>
    ELSE LET h == Head(rle)
             t == Norm(Tail(rle))
         IN  IF h.len = 0 THEN t
             ELSE IF t # <<>> /\ Head(t).sym = h.sym
                  THEN <<Run(h.sym, h.len + Head(t).len)>> \o Tail(t)
                  ELSE <<h>> \o t

RECURSIVE ByteLen(_)
ByteLen(rle) == IF rle = <<>> THEN 0 ELSE Head(rle).len + ByteLen(Tail(rle))

Min(a, b) == IF a < b THEN a ELSE b
Max(a, b) == IF a > b THEN a ELSE b

\* text[start..end]: the bytes at indexes start .. end-1.
RECURSIVE Slice(_, _, _)
Slice(rle, start, end) ==
    IF rle = <<>> \/ end <= 0 \/ start >= end THEN <<>>
    ELSE LET h == Head(rle)
             from == Max(start, 0)
             upto == Min(end, h.len)
             here == IF upto > from THEN <<Run(h.sym, upto - from)>> ELSE <<>>
         IN  Norm(here \o Slice(Tail(rle), start - h.len, end - h.len))

\* The bytes of a text given as its paragraphs: the paragraphs joined by "\n\n".
RECURSIVE TextBytes(_)
TextBytes(paras) ==
    IF Len(paras) = 0 THEN <<>>
    ELSE IF Len(paras) = 1 THEN Norm(<<paras[1]>>)
    ELSE Norm(<<paras[1], NL2>> \o TextBytes(Tail(paras)))

\* paragraph.as_ptr() - text.as_ptr(): the byte index at which paragraph i starts.
RECURSIVE ParaOffset(_, _)
ParaOffset(paras, i) ==
    IF i <= 1 THEN 0 ELSE ParaOffset(paras, i - 1) + paras[i - 1].len + 2

\* format!("{:x}", md5::compute(bytes)): a digest, injective barring collisions.
\* A digest is a one-element sequence, so it differs from the empty string.
md5(bytes) == <<bytes>>

\* String::new()
EmptyString == <<>>

\* ------------------------------------------------------------------------
\* Chunker
\* ------------------------------------------------------------------------

MAX_CHUNK_SIZE == 2000
MIN_CHUNK_SIZE == 500
CHUNK_SIZE == 1000
OVERLAP == 200

FileChunk(p, t, o) == [path |-> p, text |-> t, start_offset |-> o]

\* str::is_char_boundary: index i is the start of the text, its end, or the
\* first byte of a character.
RECURSIVE is_char_boundary(_, _)
is_char_boundary(bytes, i) ==
    IF bytes = <<>> THEN i = 0
    ELSE IF i < Head(bytes).len THEN i % CharWidth(Head(bytes).sym) = 0
    ELSE is_char_boundary(Tail(bytes), i - Head(bytes).len)

RECURSIVE SnapEnd(_, _)
SnapEnd(bytes, end) ==
    IF end < ByteLen(bytes) /\ ~is_char_boundary(bytes, end)
    THEN SnapEnd(bytes, end + 1) ELSE end

RECURSIVE SnapStart(_, _)
SnapStart(bytes, s) ==
    IF s > 0 /\ ~is_char_boundary(bytes, s) THEN SnapStart(bytes, s - 1) ELSE s

\* end: (start + CHUNK_SIZE).min(text.len()), moved up to a char boundary.
WindowEnd(bytes, start) ==
    SnapEnd(bytes, Min(start + CHUNK_SIZE, ByteLen(bytes)))

\* A next window that starts one byte behind the end of this one.
NextStartLeavesGap(bytes, end) == end + 1

\* next_start: end.saturating_sub(OVERLAP), moved down to a char boundary.
NextStart(bytes, end) == SnapStart(bytes, Max(end - OVERLAP, 0))

\* The windows [start, end) of the while loop of chunk_fixed_size_dedup, in
\* the order of its iterations, from window start `start`.
RECURSIVE FixedWindows(_, _, _)
FixedWindows(bytes, start, acc) ==
    IF ~(start < ByteLen(bytes)) THEN acc
    ELSE LET end == WindowEnd(bytes, start)
             acc2 == Append(acc, [start |-> start, end |-> end])
         IN  IF end = ByteLen(bytes) THEN acc2
             ELSE FixedWindows(bytes, NextStart(bytes, end), acc2)

\* The while loop of chunk_fixed_size_dedup, from window start `start`.
RECURSIVE FixedLoop(_, _, _, _, _)
FixedLoop(bytes, path, start, chunks, seen) ==
    IF ~(start < ByteLen(bytes)) THEN chunks
    ELSE LET end == WindowEnd(bytes, start)
             chunk_text_ == Slice(bytes, start, end)
             hash == md5(chunk_text_)
             chunks2 == IF hash \notin seen
                        THEN Append(chunks, FileChunk(path, chunk_text_, start))
                        ELSE chunks
             next_start == NextStart(bytes, end)
         IN  IF end = ByteLen(bytes) THEN chunks2
             ELSE FixedLoop(bytes, path, next_start, chunks2, seen \cup {hash})

chunk_fixed_size_dedup(paras, path) ==
    FixedLoop(TextBytes(paras), path, 0, <<>>, {})

\* Flushing current_chunk: push it unless its digest was seen, clear it, and
\* advance start_offset by `advance`.
\* A flush that pushes current_chunk whether or not its digest was seen.
FlushKeepsDuplicates(st, path, advance) ==
    [chunks |-> Append(st.chunks,
                       FileChunk(path, st.current_chunk, st.start_offset)),
     seen_hashes |-> st.seen_hashes \cup {md5(st.current_chunk)},
     current_chunk |-> <<>>,
     start_offset |-> st.start_offset + advance]

Flush(st, path, advance) ==
    LET hash == md5(st.current_chunk)
    IN  [chunks |-> IF hash \notin st.seen_hashes
                    THEN Append(st.chunks,
                                FileChunk(path, st.current_chunk, st.start_offset))
                    ELSE st.chunks,
         seen_hashes |-> st.seen_hashes \cup {hash},
         current_chunk |-> <<>>,
         start_offset |-> st.start_offset + advance]

\* One iteration of the paragraph loop of chunk_text, for paragraph i.
ChunkStep(st, paras, i, path) ==
    LET paragraph == paras[i]
        off == ParaOffset(paras, i)
        st1 == IF ByteLen(st.current_chunk) + paragraph.len > MAX_CHUNK_SIZE
                  /\ st.current_chunk # <<>>
               THEN Flush(st, path, off)
               ELSE st
        st2 == [st1 EXCEPT !.current_chunk =
                   IF st1.current_chunk # <<>>
                   THEN Norm(st1.current_chunk \o <<NL2, paragraph>>)
                   ELSE Norm(<<paragraph>>)]
    IN  IF ByteLen(st2.current_chunk) >= MIN_CHUNK_SIZE
        THEN Flush(st2, path, off + paragraph.len)
        ELSE st2

RECURSIVE ChunkLoop(_, _, _, _)
ChunkLoop(st, paras, i, path) ==
    IF i > Len(paras) THEN st
    ELSE ChunkLoop(ChunkStep(st, paras, i, path), paras, i + 1, path)

chunk_text(paras, path) ==
    LET st0 == [chunks |-> <<>>, seen_hashes |-> {}, current_chunk |-> <<>>,
                start_offset |-> 0]
        st == ChunkLoop(st0, paras, 1, path)
        chunks == IF st.current_chunk # <<>> /\ md5(st.current_chunk) \notin st.seen_hashes
                  THEN Append(st.chunks,
                              FileChunk(path, st.current_chunk, st.start_offset))
                  ELSE st.chunks
    IN  IF chunks = <<>> THEN chunk_fixed_size_dedup(paras, path) ELSE chunks

\* ------------------------------------------------------------------------
\* Strings that the code inspects character by character (paths, patterns,
\* keywords, questions) are sequences of one-character strings.
\* ------------------------------------------------------------------------

UpperCase == <<"A", "B", "C", "D", "E", "F", "G", "H", "I", "J", "K", "L", "M", "N", "O", "P", "Q", "R", "S", "T", "U", "V", "W", "X", "Y", "Z">>
LowerCase == <<"a", "b", "c", "d", "e", "f", "g", "h", "i", "j", "k", "l", "m", "n", "o", "p", "q", "r", "s", "t", "u", "v", "w", "x", "y", "z">>

LowerChar(c) ==
    IF \E i \in 1..Len(UpperCase) : UpperCase[i] = c
    THEN LowerCase[CHOOSE i \in 1..Len(UpperCase) : UpperCase[i] = c]
    ELSE c

to_lowercase(s) == [i \in 1..Len(s) |-> LowerChar(s[i])]

starts_with(s, pre) == Len(pre) <= Len(s) /\ SubSeq(s, 1, Len(pre)) = pre

ends_with(s, suf) ==
    Len(suf) <= Len(s) /\ SubSeq(s, Len(s) - Len(suf) + 1, Len(s)) = suf

contains(s, sub) ==
    \E i \in 0..(Len(s) - Len(sub)) : SubSeq(s, i + 1, i + Len(sub)) = sub

RECURSIVE trim_end_matches(_, _)
trim_end_matches(s, suf) ==
    IF suf # <<>> /\ ends_with(s, suf)
    THEN trim_end_matches(SubSeq(s, 1, Len(s) - Len(suf)), suf)
    ELSE s

S_project == <<"p", "r", "o", "j", "e", "c", "t">>
S_what_is == <<"w", "h", "a", "t", " ", "i", "s">>
S_starstar == <<"*", "*">>
S_slash_starstar == <<"/", "*", "*">>
S_star_dot == <<"*", ".">>
S_slash == <<"/">>
S_dot == <<".">>

\* ------------------------------------------------------------------------
\* The file tree.  A path is an opaque name in the state; PathChars gives its
\* characters to the pattern and keyword matching.
\* ------------------------------------------------------------------------

P_a == <<".", "/", "a", ".", "m", "d">>
P_b == <<".", "/", "s", "r", "c", "/", "b", ".", "r", "s">>

PathA == "./a.md"
PathB == "./src/b.rs"

\* The eligible files the tree can hold, in the order read_dir lists them.
AllPaths == <<PathA, PathB>>

PathChars(p) == IF p = PathA THEN P_a ELSE P_b

\* to_string_lossy of a path
to_string_lossy(p) == PathChars(p)

\* A file name as the operating system holds it is a sequence of bytes: a
\* one-character string for a byte of valid UTF-8, "0xFF" or "0xFE" for a byte
\* that occurs in no UTF-8 text.
\* Path::to_string_lossy of such a name: every invalid byte becomes U+FFFD.
OsStrToStringLossy(name) ==
    [i \in 1..Len(name) |->
        IF name[i] \in InvalidBytes THEN REPLACEMENT_CHARACTER ELSE name[i]]

\* Directories the tree can hold: relative path, base name, parent, depth
\* below the root; in the order read_dir lists them.
RootDir == "."
DirUniverse ==
    << [rel |-> "src", name |-> "src", parent |-> RootDir],
       [rel |-> "target", name |-> "target", parent |-> RootDir],
       [rel |-> "src/app", name |-> "app", parent |-> "src"],
       [rel |-> "target/debug", name |-> "debug", parent |-> "target"] >>

ignored_dirs ==
    {".git", "target", "node_modules", ".next", "dist", "build", ".idea",
     ".vscode", ".cache", "venv", "__pycache__"}

max_file_bytes == 2 * 1024 * 1024

\* ------------------------------------------------------------------------
\* Directory walker
\* ------------------------------------------------------------------------

\* The sub-directories of dir that exist in tree `present`, in read_dir order.
ChildDirs(present, dir) ==
    SelectSeq(DirUniverse, LAMBDA d : d.parent = dir /\ d.rel \in present)

\* One rendered line: "  ".repeat(depth) followed by the relative path.
OverviewLine(depth, rel) == <<depth, rel>>

RECURSIVE walk_directory(_, _, _, _, _, _)
RECURSIVE WalkEntries(_, _, _, _, _, _, _)

\* A walk that does not stop at max_depth.
walk_directory_any_depth(present, dir, st, depth, max_depth, max_entries) ==
    IF st.seen >= max_entries THEN st
    ELSE LET st1 == [lines |-> Append(st.lines, OverviewLine(depth, dir)),
                     seen |-> st.seen + 1]
         IN  IF st1.seen >= max_entries THEN st1
             ELSE WalkEntries(present, ChildDirs(present, dir), 1, st1, depth,
                              max_depth, max_entries)

\* st = [lines, seen]; returns the st after walking dir.
walk_directory(present, dir, st, depth, max_depth, max_entries) ==
    IF depth > max_depth \/ st.seen >= max_entries THEN st
    ELSE LET st1 == [lines |-> Append(st.lines, OverviewLine(depth, dir)),
                     seen |-> st.seen + 1]
         IN  IF st1.seen >= max_entries THEN st1
             ELSE WalkEntries(present, ChildDirs(present, dir), 1, st1, depth,
                              max_depth, max_entries)

\* The for loop over read_dir, from entry k on.
WalkEntries(present, entries, k, st, depth, max_depth, max_entries) ==
    IF k > Len(entries) THEN st
    ELSE IF entries[k].name \in ignored_dirs
         THEN WalkEntries(present, entries, k + 1, st, depth, max_depth, max_entries)
         ELSE LET st1 == walk_directory(present, entries[k].rel, st, depth + 1,
                                        max_depth, max_entries)
              IN  IF st1.seen >= max_entries THEN st1
                  ELSE WalkEntries(present, entries, k + 1, st1, depth,
                                   max_depth, max_entries)

\* lines.join("\n"): kept as the sequence of lines; "" is the empty sequence.
directory_overview(present, max_depth, max_entries) ==
    walk_directory(present, RootDir, [lines |-> <<>>, seen |-> 0], 0,
                   max_depth, max_entries).lines

\* ------------------------------------------------------------------------
\* File scanner
\* ------------------------------------------------------------------------

FileScanResult(p, h, c) == [path |-> p, hash |-> h, chunks |-> c]

\* String::from_utf8_lossy, paragraph by paragraph: every byte that occurs in
\* no UTF-8 text becomes U+FFFD, valid text is kept.
from_utf8_lossy(raw) ==
    [i \in 1..Len(raw) |->
        IF raw[i].sym \in InvalidBytes
        THEN Run(REPLACEMENT_CHARACTER, CharWidth(REPLACEMENT_CHARACTER) * raw[i].len)
        ELSE raw[i]]

\* A scan that applies no size cap.
load_and_chunk_file_uncapped(path, raw) ==
    LET content == from_utf8_lossy(raw)
    IN  FileScanResult(path, md5(TextBytes(content)), chunk_text(content, path))

load_and_chunk_file(path, raw) ==
    IF ByteLen(TextBytes(raw)) > max_file_bytes
    THEN FileScanResult(path, EmptyString, <<>>)
    ELSE LET content == from_utf8_lossy(raw)
         IN  FileScanResult(path, md5(TextBytes(content)), chunk_text(content, path))

\* scan_paths: one result per path, in the order of paths.
scan_paths(fs, paths) ==
    [i \in 1..Len(paths) |-> load_and_chunk_file(paths[i], fs[paths[i]])]

\* The directory an eligible file lies in.
FileDir(p) == IF p = PathA THEN RootDir ELSE "src"

RECURSIVE collect_files_recursive(_, _, _, _, _)
RECURSIVE CollectEntries(_, _, _, _, _, _)

\* collect_files_recursive(dir, files): read_dir(dir)? fails for a directory
\* that cannot be read; the entries are its files, then its sub-directories.
\* Returns [ok, files].
collect_files_recursive(present, unreadable, fileset, dir, acc) ==
    IF dir \in unreadable THEN [ok |-> FALSE, files |-> acc]
    ELSE CollectEntries(present, unreadable, fileset, ChildDirs(present, dir), 1,
             [ok |-> TRUE,
              files |-> acc \o SelectSeq(AllPaths,
                            LAMBDA p : p \in fileset /\ FileDir(p) = dir)])

\* The for loop over the sub-directories, from entry k on; the `?` of the
\* recursive call returns its error.
CollectEntries(present, unreadable, fileset, entries, k, res) ==
    IF k > Len(entries) THEN res
    ELSE IF entries[k].name \in ignored_dirs
         THEN CollectEntries(present, unreadable, fileset, entries, k + 1, res)
         ELSE LET r == collect_files_recursive(present, unreadable, fileset,
                                               entries[k].rel, res.files)
              IN  IF ~r.ok THEN r
                  ELSE CollectEntries(present, unreadable, fileset, entries,
                                      k + 1, r)

\* collect_files over a tree with unreadable directories: Ok(files) or Err.
collect_files_in(present, unreadable, fileset) ==
    LET r == collect_files_recursive(present, unreadable, fileset, RootDir, <<>>)
    IN  IF r.ok THEN <<"Ok", r.files>> ELSE <<"Err">>

\* collect_files: the eligible files of the tree.
collect_files(fs) == SelectSeq(AllPaths, LAMBDA p : p \in DOMAIN fs)

\* ------------------------------------------------------------------------
\* File selection of build_index_for_keywords
\* ------------------------------------------------------------------------

rag_include_patterns ==
  <<
    <<"*", ".", "r", "s">>, <<"*", ".", "j", "s">>, <<"*", ".", "t", "s">>,
    <<"*", ".", "p", "y">>, <<"*", ".", "j", "a", "v", "a">>, <<"*", ".", "g", "o">>,
    <<"*", ".", "m", "d">>, <<"*", ".", "t", "o", "m", "l">>, <<"*", ".", "j", "s", "o", "n">>
  >>

rag_exclude_patterns ==
  <<
    <<"t", "a", "r", "g", "e", "t", "/", "*", "*">>, <<"n", "o", "d", "e", "_", "m", "o", "d", "u", "l", "e", "s", "/", "*", "*">>,
    <<"*", ".", "l", "o", "c", "k">>, <<"C", "a", "r", "g", "o", ".", "l", "o", "c", "k">>,
    <<".", "g", "i", "t", "/", "*", "*">>, <<"_", "_", "p", "y", "c", "a", "c", "h", "e", "_", "_", "/", "*", "*">>,
    <<"*", ".", "p", "y", "c">>, <<"d", "i", "s", "t", "/", "*", "*">>,
    <<"b", "u", "i", "l", "d", "/", "*", "*">>, <<".", "n", "e", "x", "t", "/", "*", "*">>,
    <<".", "c", "a", "c", "h", "e", "/", "*", "*">>
  >>

stop_words ==
  {
    <<"t", "h", "e">>, <<"a">>, <<"a", "n">>,
    <<"a", "n", "d">>, <<"o", "r">>, <<"b", "u", "t">>,
    <<"i", "n">>, <<"o", "n">>, <<"a", "t">>,
    <<"t", "o">>, <<"f", "o", "r">>, <<"o", "f">>,
    <<"w", "i", "t", "h">>, <<"b", "y">>, <<"i", "s">>,
    <<"a", "r", "e">>, <<"w", "a", "s">>, <<"w", "e", "r", "e">>,
    <<"b", "e">>, <<"b", "e", "e", "n">>, <<"b", "e", "i", "n", "g">>,
    <<"h", "a", "v", "e">>, <<"h", "a", "s">>, <<"h", "a", "d">>,
    <<"d", "o">>, <<"d", "o", "e", "s">>, <<"d", "i", "d">>,
    <<"w", "i", "l", "l">>, <<"w", "o", "u", "l", "d">>, <<"c", "o", "u", "l", "d">>,
    <<"s", "h", "o", "u", "l", "d">>, <<"m", "a", "y">>, <<"m", "i", "g", "h", "t">>,
    <<"m", "u", "s", "t">>, <<"c", "a", "n">>, <<"s", "h", "a", "l", "l">>,
    <<"t", "h", "i", "s">>, <<"t", "h", "a", "t">>, <<"t", "h", "e", "s", "e">>,
    <<"t", "h", "o", "s", "e">>, <<"i">>, <<"y", "o", "u">>,
    <<"h", "e">>, <<"s", "h", "e">>, <<"i", "t">>,
    <<"w", "e">>, <<"t", "h", "e", "y">>, <<"m", "e">>,
    <<"h", "i", "m">>, <<"h", "e", "r">>, <<"u", "s">>,
    <<"t", "h", "e", "m">>, <<"m", "y">>, <<"y", "o", "u", "r">>,
    <<"h", "i", "s">>, <<"i", "t", "s">>, <<"o", "u", "r">>,
    <<"t", "h", "e", "i", "r">>, <<"w", "h", "a", "t">>, <<"w", "h", "i", "c", "h">>,
    <<"w", "h", "o">>, <<"w", "h", "e", "n">>, <<"w", "h", "e", "r", "e">>,
    <<"w", "h", "y">>, <<"h", "o", "w">>, <<"a", "l", "l">>,
    <<"a", "n", "y">>, <<"b", "o", "t", "h">>, <<"e", "a", "c", "h">>,
    <<"f", "e", "w">>, <<"m", "o", "r", "e">>, <<"m", "o", "s", "t">>,
    <<"o", "t", "h", "e", "r">>, <<"s", "o", "m", "e">>, <<"s", "u", "c", "h">>,
    <<"n", "o">>, <<"n", "o", "r">>, <<"n", "o", "t">>,
    <<"o", "n", "l", "y">>, <<"o", "w", "n">>, <<"s", "a", "m", "e">>,
    <<"s", "o">>, <<"t", "h", "a", "n">>, <<"t", "o", "o">>,
    <<"v", "e", "r", "y">>, <<"j", "u", "s", "t">>, <<"n", "o", "w">>,
    <<"h", "e", "r", "e">>, <<"t", "h", "e", "r", "e">>, <<"t", "h", "e", "n">>,
    <<"o", "n", "c", "e">>, <<"a", "l", "s", "o">>, <<"e", "x", "p", "l", "a", "i", "n">>,
    <<"a", "v", "a", "i", "l", "a", "b", "l", "e">>, <<"l", "i", "s", "t">>, <<"s", "h", "o", "w">>,
    <<"g", "e", "t">>, <<"f", "i", "n", "d">>, <<"s", "e", "a", "r", "c", "h">>,
    <<"q", "u", "e", "r", "y">>, <<"s", "e", "l", "e", "c", "t">>
  }

matches_pattern(path, pattern) ==
    IF contains(pattern, S_starstar)
    THEN LET prefix == trim_end_matches(trim_end_matches(pattern, S_slash_starstar),
                                        S_starstar)
         IN  IF prefix = <<>> THEN TRUE
             ELSE contains(path, S_slash \o prefix) \/ starts_with(path, prefix)
    ELSE IF starts_with(pattern, S_star_dot)
         THEN ends_with(path, S_dot \o SubSeq(pattern, 3, Len(pattern)))
         ELSE contains(path, pattern)

\* A filter that asks the include patterns first.
PatternKeepsIncludeFirst(path_str, excludes, includes) ==
    IF \E i \in 1..Len(includes) : matches_pattern(path_str, includes[i])
    THEN TRUE
    ELSE IF \E i \in 1..Len(excludes) : matches_pattern(path_str, excludes[i])
         THEN FALSE
         ELSE includes = <<>>

\* The closure of filter_files_by_patterns, for the lists of a configuration.
PatternKeepsWith(path_str, excludes, includes) ==
    IF \E i \in 1..Len(excludes) : matches_pattern(path_str, excludes[i])
    THEN FALSE
    ELSE IF includes = <<>> THEN TRUE
         ELSE \E i \in 1..Len(includes) : matches_pattern(path_str, includes[i])

PatternKeeps(p) ==
    PatternKeepsWith(to_string_lossy(p), rag_exclude_patterns, rag_include_patterns)

\* filter_files_by_patterns over path strings and a configuration's lists.
FilterPathStrings(strs, excludes, includes) ==
    SelectSeq(strs, LAMBDA path_str : PatternKeepsWith(path_str, excludes, includes))

filter_files_by_patterns(fileseq) == SelectSeq(fileseq, PatternKeeps)

filter_relevant_keywords(keywords) ==
    SelectSeq(keywords, LAMBDA k : Len(k) >= 3 /\ to_lowercase(k) \notin stop_words)

MAX_FILES == 200

\* The number of keywords the lower-cased path contains.
KeywordScoreOf(path_str, keywords) ==
    IF keywords = <<>> THEN 1
    ELSE Cardinality({i \in 1..Len(keywords) :
             contains(to_lowercase(path_str), to_lowercase(keywords[i]))})

KeywordScore(p, keywords) == KeywordScoreOf(to_string_lossy(p), keywords)

\* files_with_scores.sort_by(|a, b| b.1.cmp(&a.1)): a stable sort by descending
\* score.  Element j goes behind every element of a greater score and every
\* earlier element of the same score.  (`\o <<>>` leaves a sequence unchanged;
\* it makes the ranks a tuple computed once.)
StableSortByScoreDesc(v) ==
    LET rank == [j \in 1..Len(v) |->
                    1 + Cardinality({k \in 1..Len(v) :
                            \/ v[k].score > v[j].score
                            \/ v[k].score = v[j].score /\ k < j})] \o <<>>
    IN  [r \in 1..Len(v) |-> v[CHOOSE j \in 1..Len(v) : rank[j] = r]]

\* The selection that narrows by keyword first and applies the patterns to
\* the narrowed list.
SelectKeywordsFirst(all, keywords, path_string) ==
    LET filtered_keywords == filter_relevant_keywords(keywords)
        filtered == SelectSeq(all, LAMBDA p :
                        \E i \in 1..Len(filtered_keywords) :
                            contains(to_lowercase(path_string[p]),
                                     to_lowercase(filtered_keywords[i])))
        narrowed == IF filtered # <<>> THEN filtered ELSE all
        kept == SelectSeq(narrowed, LAMBDA p :
                    PatternKeepsWith(path_string[p], rag_exclude_patterns,
                                     rag_include_patterns))
    IN  IF Len(kept) > MAX_FILES THEN SubSeq(kept, 1, MAX_FILES) ELSE kept

\* The list of files build_index_for_keywords passes to build_index_with_files,
\* for paths whose to_string_lossy is path_string[p].
SelectForKeywords(all, keywords, path_string) ==
    LET files1 == SelectSeq(all, LAMBDA p :
                      PatternKeepsWith(path_string[p], rag_exclude_patterns,
                                       rag_include_patterns))
        filtered_keywords == filter_relevant_keywords(keywords)
        keyword_lower == [i \in 1..Len(filtered_keywords) |->
                              to_lowercase(filtered_keywords[i])]
        filtered == SelectSeq(files1, LAMBDA p :
                        \E i \in 1..Len(keyword_lower) :
                            contains(to_lowercase(path_string[p]), keyword_lower[i]))
        files2 == IF keywords # <<>> /\ filtered_keywords # <<>> /\ filtered # <<>>
                  THEN filtered ELSE files1
        files_with_scores == [i \in 1..Len(files2) |->
                                 [path |-> files2[i],
                                  score |-> KeywordScoreOf(path_string[files2[i]],
                                                           keywords)]] \o <<>>
        ranked == StableSortByScoreDesc(files_with_scores)
    IN  IF Len(files2) > MAX_FILES
        THEN [i \in 1..MAX_FILES |-> ranked[i].path]
        ELSE files2

SelectFilesForKeywords(all, keywords) ==
    SelectForKeywords(all, keywords,
        [p \in {all[i] : i \in 1..Len(all)} |-> to_string_lossy(p)])

\* build_index: every file collect_files returns goes to the pass.
BuildIndexFiles(all) == all

\* ------------------------------------------------------------------------
\* Similarity search
\*
\* An f32 score is kept exactly: [num, den2] stands for num / sqrt(den2), and
\* den2 = 0 stands for the NaN that 0.0 / 0.0 gives.  Rounding is not modelled.
\* ------------------------------------------------------------------------

RECURSIVE DotZip(_, _)
DotZip(a, b) ==
    IF a = <<>> \/ b = <<>> THEN 0
    ELSE Head(a) * Head(b) + DotZip(Tail(a), Tail(b))

RECURSIVE SumSquares(_)
SumSquares(a) == IF a = <<>> THEN 0 ELSE Head(a) * Head(a) + SumSquares(Tail(a))

cosine_similarity(a, b) ==
    [num |-> DotZip(a, b), den2 |-> SumSquares(a) * SumSquares(b)]

is_nan(s) == s.den2 = 0

\* s < t as f32 values; false when either is NaN.
ScoreLt(s, t) ==
    /\ ~is_nan(s) /\ ~is_nan(t)
    /\ IF s.num >= 0 /\ t.num >= 0
       THEN s.num * s.num * t.den2 < t.num * t.num * s.den2
       ELSE IF s.num < 0 /\ t.num < 0
            THEN s.num * s.num * t.den2 > t.num * t.num * s.den2
            ELSE s.num < 0

\* f32::partial_cmp
partial_cmp(s, t) ==
    IF is_nan(s) \/ is_nan(t) THEN "None"
    ELSE IF ScoreLt(s, t) THEN "Less"
    ELSE IF ScoreLt(t, s) THEN "Greater"
    ELSE "Equal"

Scored(s, t) == [score |-> s, text |-> t]

\* a <= b on Scored, as PartialOrd derives it from partial_cmp.
ScoredLe(a, b) == partial_cmp(a.score, b.score) \in {"Less", "Equal"}

\* std::collections::BinaryHeap over a Vec; positions are 0-based as in Rust.
At(data, i) == data[i + 1]
Put(data, i, v) == [data EXCEPT ![i + 1] = v]

RECURSIVE sift_up(_, _, _, _)
sift_up(data, start, pos, e) ==
    IF pos > start
    THEN LET parent == (pos - 1) \div 2
         IN  IF ScoredLe(e, At(data, parent)) THEN Put(data, pos, e)
             ELSE sift_up(Put(data, pos, At(data, parent)), start, parent, e)
    ELSE Put(data, pos, e)

RECURSIVE SiftDown(_, _, _, _, _)
SiftDown(data, pos, child, end, e) ==
    IF child <= Max(end - 2, 0) /\ end >= 2
    THEN LET c == IF ScoredLe(At(data, child), At(data, child + 1))
                  THEN child + 1 ELSE child
         IN  SiftDown(Put(data, pos, At(data, c)), c, 2 * c + 1, end, e)
    ELSE IF child = end - 1
         THEN sift_up(Put(data, pos, At(data, child)), 0, child, e)
         ELSE sift_up(data, 0, pos, e)

sift_down_to_bottom(data) == SiftDown(data, 0, 1, Len(data), At(data, 0))

heap_push(data, item) == sift_up(Append(data, item), 0, Len(data), item)

\* BinaryHeap::pop: the vector after the greatest element was removed.
heap_pop(data) ==
    IF data = <<>> THEN data
    ELSE LET item == data[Len(data)]
             rest == SubSeq(data, 1, Len(data) - 1)
         IN  IF rest = <<>> THEN rest
             ELSE sift_down_to_bottom(Put(rest, 0, item))

\* The body of the for loop of find_relevant_chunks.
HeapStep(heap, query_embedding, emb, top_k) ==
    LET pushed == heap_push(heap,
                      Scored(cosine_similarity(query_embedding, emb.vector), emb.text))
    IN  IF Len(pushed) > top_k * 3 THEN heap_pop(pushed) ELSE pushed

RECURSIVE HeapLoop(_, _, _, _, _)
HeapLoop(heap, query_embedding, embs, i, top_k) ==
    IF i > Len(embs) THEN heap
    ELSE HeapLoop(HeapStep(heap, query_embedding, embs[i], top_k),
                  query_embedding, embs, i + 1, top_k)

\* results.sort_by(|a, b| b.score.partial_cmp(&a.score).unwrap_or(Equal)):
\* the stable insertion sort the standard library runs on short slices.
RECURSIVE InsertScored(_, _, _)
InsertScored(sorted, x, j) ==
    IF j >= 1 /\ partial_cmp(sorted[j].score, x.score) = "Less"
    THEN InsertScored(sorted, x, j - 1)
    ELSE SubSeq(sorted, 1, j) \o <<x>> \o SubSeq(sorted, j + 1, Len(sorted))

RECURSIVE SortScoredDesc(_, _, _)
SortScoredDesc(v, i, sorted) ==
    IF i > Len(v) THEN sorted
    ELSE SortScoredDesc(v, i + 1, InsertScored(sorted, v[i], Len(sorted)))

\* The tail of find_relevant_chunks: sort the heap's vector, take top_k.
CollectResults(heap, top_k) ==
    LET results == SortScoredDesc(heap, 1, <<>>)
    IN  SubSeq(results, 1, Min(top_k, Len(results)))

TextsOf(scored) == [i \in 1..Len(scored) |-> scored[i].text]

find_relevant_chunks(query_embedding, embs, top_k) ==
    TextsOf(CollectResults(HeapLoop(<<>>, query_embedding, embs, 1, top_k), top_k))

\* ------------------------------------------------------------------------
\* Embedding store: the tables embeddings (rows in rowid order) and
\* file_meta (path -> hash).  Option<T> is a sequence of length 0 or 1.
\* ------------------------------------------------------------------------

None == <<>>
Some(v) == <<v>>

\* bincode::serialize of a Vec<f32>: its length, then its elements.
bincode_serialize(vector) == [len |-> Len(vector), data |-> vector]

bincode_deserialize(blob) == blob.data

EmbeddingRow(id, blob, text, path) ==
    [id |-> id, vector |-> blob, text |-> text, path |-> path]

Embedding(id, vector, text, path) ==
    [id |-> id, vector |-> vector, text |-> text, path |-> path]

\* A plain INSERT: the new row is added, a row of the same id stays.
InsertKeepsOldRow(rows, e) ==
    Append(rows, EmbeddingRow(e.id, bincode_serialize(e.vector), e.text, e.path))

\* INSERT OR REPLACE INTO embeddings of one row: a row of the same id goes,
\* the new row gets the next rowid.
InsertOrReplace(rows, e) ==
    SelectSeq(rows, LAMBDA r : r.id # e.id)
        \o <<EmbeddingRow(e.id, bincode_serialize(e.vector), e.text, e.path)>>

RECURSIVE InsertAll(_, _, _)
InsertAll(rows, batch, k) ==
    IF k > Len(batch) THEN rows
    ELSE InsertAll(InsertOrReplace(rows, batch[k]), batch, k + 1)

\* The table after a committed insert_embeddings(batch).
insert_embeddings(rows, batch) == InsertAll(rows, batch, 1)

get_all_embeddings(rows) ==
    [k \in 1..Len(rows) |->
        Embedding(rows[k].id, bincode_deserialize(rows[k].vector),
                  rows[k].text, rows[k].path)]

get_file_hash(meta, path) ==
    IF path \in DOMAIN meta THEN Some(meta[path]) ELSE None

upsert_file_hash(meta, path, hash) ==
    [q \in (DOMAIN meta) \cup {path} |-> IF q = path THEN hash ELSE meta[q]]

\* A delete that removes nothing.
delete_embeddings_keeps_rows(rows, path) == rows

\* A DELETE without its WHERE clause.
delete_embeddings_of_every_path(rows, path) == <<>>

delete_embeddings_for_path(rows, path) ==
    SelectSeq(rows, LAMBDA r : r.path # path)

\* ------------------------------------------------------------------------
\* Backend (external): embed(text) -> vector and complete(prompt) -> text,
\* fixed functions of their argument.
\* ------------------------------------------------------------------------

generate_embedding(text) ==
    IF text[1] = "FILE" THEN <<1 + (ByteLen(text[4]) % 2), text[3] % 3>>
    ELSE IF text[1] = "DIRECTORY TREE" THEN <<0, 1>>
    ELSE <<1, 1>>

generate_response(prompt) == <<"completion", prompt.question>>

\* ------------------------------------------------------------------------
\* Embedding pipeline
\* ------------------------------------------------------------------------

BATCH_SIZE == 32

EmbeddingInput(id, path, text) == [id |-> id, path |-> path, text |-> text]

NumBatches(inputs) == (Len(inputs) + BATCH_SIZE - 1) \div BATCH_SIZE

\* generate_embeddings when every call succeeds.
generate_embeddings(inputs) ==
    [k \in 1..Len(inputs) |->
        Embedding(inputs[k].id, generate_embedding(inputs[k].text),
                  inputs[k].text, inputs[k].path)]

\* ------------------------------------------------------------------------
\* State
\* ------------------------------------------------------------------------

VARIABLES
    files,          \* the eligible files of the tree: path -> paragraphs
    dirs,           \* the directories of the tree (relative paths)
    readme,         \* README.md of the working directory is readable
    embeddings,     \* table embeddings, rows in rowid order
    file_meta,      \* table file_meta: path -> hash
    pc,             \* where build_index_with_files is ("idle": not running)
    todo,           \* its argument files
    dir_overview,   \* its local dir_overview
    scans,          \* its local scans
    idx,            \* position of `for scan in scans` (1-based)
    inputs,         \* its local inputs
    pending,        \* the embeddings generate_embeddings returned
    ops,            \* log: the store writes/reads and embedding calls of the pass
    meta0,          \* log: file_meta as it was when the pass started
    outcome,        \* what the pass returned ("ok", "err") once pc = "done"
    last_query,     \* what the last query did and returned
    passes,         \* number of passes started
    edits,          \* number of changes made to the tree
    aborted,        \* log: paths whose embeddings a failed pass deleted, not
                    \* rewritten and not covered by a later pass since
    s_pc,           \* where find_relevant_chunks is
    s_query,        \* its argument query_embedding
    s_corpus,       \* its argument embeddings
    s_top_k,        \* its argument top_k
    s_i,            \* position of `for emb in embeddings` (1-based)
    s_heap,         \* its local heap (the vector of the BinaryHeap)
    s_score,        \* its local score of the last iteration
    s_results,      \* the texts it returned
    e_base,         \* generate_embeddings: inputs in the batches already done
    e_started,      \* calls of the current batch handed to the stream so far
    e_inflight,     \* bag of the calls in flight (buffer_unordered's queue)
    e_results,      \* generate_batch_embeddings: results, in completion order
    e_out,          \* generate_embeddings: its local embeddings
    e_failures,     \* number of embedding calls that failed
    e_rows0,        \* log: table embeddings as it was before the insert
    k_lock,         \* conn's Mutex: the caller holding the guard, or NoCaller
    k_pc,           \* per caller of the store: "idle", "wait" or "body"
    k_op,           \* per caller: the operation it called, with its arguments
    k_i,            \* per caller: rows its statement loop has handled
    k_acc,          \* per caller: the value its operation has built
    k_stable,       \* log: the two tables when the Mutex was last free
    k_calls,        \* number of store operations called so far
    d_pc,           \* where EmbeddingStorage::new / setup_db is
    d_schema,       \* the database file's schema: tables, columns, indexes
    d_has_path,     \* setup_db's local has_path
    d_opens,        \* number of times the store was opened
    d_failures,     \* number of statements of setup_db that failed
    d_start,        \* log: schema and tables when the present open began
    f_op,           \* the function being called on its own, or "none"
    f_in,           \* its arguments
    f_out,          \* its result
    r_pc,           \* where confirm_and_run / confirm_and_run_multi_step is
    r_fn,           \* which of the two functions was called
    r_cmd,          \* its argument cmd
    r_config,       \* its argument config: copy_to_clipboard
    r_assessment,   \* its local assessment, or None before assess_command
    r_log,          \* log: what the call has done so far, in order
    r_result,       \* the value the call returned, or "none"
    c_file,         \* the explain cache file: None, or format and content
    c_now,          \* the system clock, in seconds
    c_saves,        \* log: the calls of save_cached_explain, in order
    c_ret           \* the last call of the cache and what it returned

envvars == <<files, dirs, readme>>
storevars == <<embeddings, file_meta>>
passvars == <<pc, todo, dir_overview, scans, idx, inputs, pending, ops, meta0,
              outcome, passes>>
svars == <<s_pc, s_query, s_corpus, s_top_k, s_i, s_heap, s_score, s_results>>
evars == <<e_base, e_started, e_inflight, e_results, e_out, e_failures, e_rows0>>
kvars == <<k_lock, k_pc, k_op, k_i, k_acc, k_stable, k_calls>>
dvars == <<d_pc, d_schema, d_has_path, d_opens, d_failures, d_start>>
fvars == <<f_op, f_in, f_out>>
rvars == <<r_pc, r_fn, r_cmd, r_config, r_assessment, r_log, r_result>>
cvars == <<c_file, c_now, c_saves, c_ret>>
vars == <<envvars, storevars, passvars, last_query, edits, aborted, svars, evars,
         kvars, dvars,
              fvars, rvars, cvars>>

\* Bounds of the model
MaxPasses == 2
MaxEdits == 1

\* ------------------------------------------------------------------------
\* Inputs of the orchestrator model
\* ------------------------------------------------------------------------

EmptyPara == Run(NL, 0)
T_empty == <<EmptyPara>>
T_hello == <<Run("h", 5)>>
T_two == <<Run("a", 600), Run("b", 700)>>
T_big == <<Run("z", max_file_bytes + 1)>>

Contents == {T_empty, T_hello, T_two, T_big}

K_src == <<"s", "r", "c">>
K_the == <<"t", "h", "e">>
KeywordLists == {<<>>, <<K_src>>, <<K_the>>}

Q_what_is == <<"W", "h", "a", "t", " ", "i", "s", " ", "i", "t">>
Q_plain == <<"h", "o", "w">>
Questions == {Q_what_is, Q_plain}
Feedbacks == {<<>>, <<"f">>}

DirKey == "__dir_overview__"

NoQuery == [question |-> <<>>, stored |-> 0, result |-> <<"none">>,
            completions |-> 0, context |-> <<>>]

\* ------------------------------------------------------------------------
\* Indexing pass: build_index_with_files, one action per await
\* ------------------------------------------------------------------------

Op(name, paths) == [op |-> name, paths |-> paths]

PathsOf(seq) == {seq[k].path : k \in 1..Len(seq)}

\* What an action other than a query leaves alone; last_query shows a query
\* only in the state the query returns in.
Rest(unchanged) == UNCHANGED unchanged /\ last_query' = NoQuery

\* An error return (`?`): the pass ends, nothing else runs.
Abort ==
    /\ pc' = "done"
    /\ outcome' = "err"
    /\ Rest(<<envvars, storevars, todo, dir_overview, scans, idx, inputs,
                   pending, ops, meta0, passes, edits, aborted, svars, evars, kvars, dvars,
              fvars, rvars, cvars>>)

BeginPass(file_list) ==
    /\ todo' = file_list
    /\ inputs' = <<>>
    /\ pending' = <<>>
    /\ scans' = <<>>
    /\ idx' = 1
    /\ ops' = <<>>
    /\ meta0' = file_meta
    /\ outcome' = "running"
    /\ dir_overview' = directory_overview(dirs, 4, 400)
    /\ pc' = IF directory_overview(dirs, 4, 400) # <<>> THEN "overview_get" ELSE "scan"
    /\ Rest(<<envvars, storevars, edits, aborted, svars, evars, kvars, dvars,
              fvars, rvars, cvars>>)

\* collect_files()? failed: the root cannot be read.
CollectFails ==
    /\ outcome' = "err"
    /\ pc' = "done"
    /\ todo' = <<>>
    /\ ops' = <<>>
    /\ meta0' = file_meta
    /\ Rest(<<envvars, storevars, dir_overview, scans, idx, inputs, pending,
              edits, aborted, svars, evars, kvars, dvars,
              fvars, rvars, cvars>>)

build_index ==
    /\ pc = "idle"
    /\ passes < MaxPasses
    /\ passes' = passes + 1
    /\ \/ BeginPass(collect_files(files))
       \/ CollectFails

build_index_for_keywords ==
    /\ pc = "idle"
    /\ passes < MaxPasses
    /\ passes' = passes + 1
    /\ \/ \E keywords \in KeywordLists :
              BeginPass(SelectFilesForKeywords(collect_files(files), keywords))
       \/ CollectFails

dir_hash == md5(dir_overview)

\* The overview step without the comparison of line 202.
OverviewGetHashAlwaysChanged ==
    /\ pc = "overview_get"
    /\ \/ Abort
       \/ /\ ops' = Append(ops, Op("get_file_hash", {DirKey}))
          /\ pc' = "overview_delete"
          /\ Rest(<<envvars, storevars, todo, dir_overview, scans, idx,
                         inputs, pending, meta0, outcome, passes, edits, aborted, svars, evars, kvars, dvars,
              fvars, rvars, cvars>>)

\* storage.get_file_hash("__dir_overview__") and the comparison with dir_hash.
OverviewGetHash ==
    /\ pc = "overview_get"
    /\ \/ Abort
       \/ /\ ops' = Append(ops, Op("get_file_hash", {DirKey}))
          /\ pc' = IF get_file_hash(file_meta, DirKey) # Some(dir_hash)
                   THEN "overview_delete" ELSE "scan"
          /\ Rest(<<envvars, storevars, todo, dir_overview, scans, idx,
                         inputs, pending, meta0, outcome, passes, edits, aborted, svars, evars, kvars, dvars,
              fvars, rvars, cvars>>)

OverviewDelete ==
    /\ pc = "overview_delete"
    /\ \/ Abort
       \/ /\ embeddings' = delete_embeddings_for_path(embeddings, DirKey)
          /\ ops' = Append(ops, Op("delete_embeddings_for_path", {DirKey}))
          /\ inputs' = Append(inputs,
                 EmbeddingInput(<<DirKey, dir_hash>>, DirKey,
                                <<"DIRECTORY TREE", dir_overview>>))
          /\ pc' = "overview_upsert"
          /\ Rest(<<envvars, file_meta, todo, dir_overview, scans, idx,
                         pending, meta0, outcome, passes, edits, aborted, svars, evars, kvars, dvars,
              fvars, rvars, cvars>>)

OverviewUpsert ==
    /\ pc = "overview_upsert"
    /\ \/ Abort
       \/ /\ file_meta' = upsert_file_hash(file_meta, DirKey, dir_hash)
          /\ ops' = Append(ops, Op("upsert_file_hash", {DirKey}))
          /\ pc' = "scan"
          /\ Rest(<<envvars, embeddings, todo, dir_overview, scans, idx,
                         inputs, pending, meta0, outcome, passes, edits, aborted, svars, evars, kvars, dvars,
              fvars, rvars, cvars>>)

\* scan_paths(files)?: every file is read, hashed and chunked; a read error
\* fails the scan.
ScanPaths ==
    /\ pc = "scan"
    /\ \/ Abort
       \/ /\ scans' = scan_paths(files, todo)
          /\ idx' = 1
          /\ pc' = "diff"
          /\ Rest(<<envvars, storevars, todo, dir_overview, inputs, pending,
                         ops, meta0, outcome, passes, edits, aborted, svars, evars, kvars, dvars,
              fvars, rvars, cvars>>)

\* `continue` for a skipped (oversized) or chunkless file.
DiffSkip ==
    /\ pc = "diff"
    /\ idx <= Len(scans)
    /\ scans[idx].hash = EmptyString \/ scans[idx].chunks = <<>>
    /\ idx' = idx + 1
    /\ Rest(<<envvars, storevars, pc, todo, dir_overview, scans, inputs,
                   pending, ops, meta0, outcome, passes, edits, aborted, svars, evars, kvars, dvars,
              fvars, rvars, cvars>>)

\* The diff step without the comparison of line 223: every file goes on to
\* delete, upsert and embed.
DiffGetHashAlwaysChanged ==
    /\ pc = "diff"
    /\ idx <= Len(scans)
    /\ ~(scans[idx].hash = EmptyString \/ scans[idx].chunks = <<>>)
    /\ \/ Abort
       \/ /\ ops' = Append(ops, Op("get_file_hash", {scans[idx].path}))
          /\ idx' = idx /\ pc' = "diff_delete"
          /\ Rest(<<envvars, storevars, todo, dir_overview, scans, inputs,
                         pending, meta0, outcome, passes, edits, aborted, svars, evars, kvars, dvars,
              fvars, rvars, cvars>>)

DiffGetHash ==
    /\ pc = "diff"
    /\ idx <= Len(scans)
    /\ ~(scans[idx].hash = EmptyString \/ scans[idx].chunks = <<>>)
    /\ \/ Abort
       \/ /\ ops' = Append(ops, Op("get_file_hash", {scans[idx].path}))
          /\ IF get_file_hash(file_meta, scans[idx].path) = Some(scans[idx].hash)
             THEN idx' = idx + 1 /\ pc' = pc
             ELSE idx' = idx /\ pc' = "diff_delete"
          /\ Rest(<<envvars, storevars, todo, dir_overview, scans, inputs,
                         pending, meta0, outcome, passes, edits, aborted, svars, evars, kvars, dvars,
              fvars, rvars, cvars>>)

\* The EmbeddingInput of one chunk.
ChunkInput(chunk) ==
    EmbeddingInput(<<chunk.path, chunk.start_offset>>, chunk.path,
                   <<"FILE", chunk.path, chunk.start_offset, chunk.text>>)

ChunkInputs(chunks) == [k \in 1..Len(chunks) |-> ChunkInput(chunks[k])]

\* The for loop over scans of build_index_with_files when no store call fails,
\* from scan k on: meta is file_meta as the loop has left it, acc the inputs
\* pushed so far.  Returns the inputs the pass embeds.
RECURSIVE QueueInputs(_, _, _, _)
QueueInputs(scanned, k, meta, acc) ==
    IF k > Len(scanned) THEN acc
    ELSE IF scanned[k].hash = EmptyString \/ scanned[k].chunks = <<>>
         THEN QueueInputs(scanned, k + 1, meta, acc)
    ELSE IF get_file_hash(meta, scanned[k].path) = Some(scanned[k].hash)
         THEN QueueInputs(scanned, k + 1, meta, acc)
    ELSE QueueInputs(scanned, k + 1,
                     upsert_file_hash(meta, scanned[k].path, scanned[k].hash),
                     acc \o ChunkInputs(scanned[k].chunks))

\* The step of a changed file without the DELETE: the old rows stay.
DiffDeleteKeepsRows ==
    /\ pc = "diff_delete"
    /\ \/ Abort
       \/ /\ embeddings' = embeddings
          /\ ops' = Append(ops, Op("delete_embeddings_for_path", {scans[idx].path}))
          /\ inputs' = inputs \o ChunkInputs(scans[idx].chunks)
          /\ pc' = "diff_upsert"
          /\ Rest(<<envvars, file_meta, todo, dir_overview, scans, idx,
                    pending, meta0, outcome, passes, edits, aborted, svars,
                    evars, kvars, dvars,
              fvars, rvars, cvars>>)

\* File changed; drop old embeddings for this path.
DiffDelete ==
    /\ pc = "diff_delete"
    /\ \/ Abort
       \/ /\ embeddings' = delete_embeddings_for_path(embeddings, scans[idx].path)
          /\ ops' = Append(ops, Op("delete_embeddings_for_path", {scans[idx].path}))
          /\ inputs' = inputs \o ChunkInputs(scans[idx].chunks)
          /\ pc' = "diff_upsert"
          /\ Rest(<<envvars, file_meta, todo, dir_overview, scans, idx,
                         pending, meta0, outcome, passes, edits, aborted, svars, evars, kvars, dvars,
              fvars, rvars, cvars>>)

DiffUpsert ==
    /\ pc = "diff_upsert"
    /\ \/ Abort
       \/ /\ file_meta' = upsert_file_hash(file_meta, scans[idx].path, scans[idx].hash)
          /\ ops' = Append(ops, Op("upsert_file_hash", {scans[idx].path}))
          /\ idx' = idx + 1
          /\ pc' = "diff"
          /\ Rest(<<envvars, embeddings, todo, dir_overview, scans, inputs,
                         pending, meta0, outcome, passes, edits, aborted, svars, evars, kvars, dvars,
              fvars, rvars, cvars>>)

\* The embedding calls of a sequence of inputs, one per input.
EmbedCalls(ins) == [k \in 1..Len(ins) |-> Op("embed", {ins[k].path})]

\* After the loop: nothing queued, the pass returns Ok(()).
FinishEmpty ==
    /\ pc = "diff"
    /\ idx > Len(scans)
    /\ inputs = <<>>
    /\ pc' = "done"
    /\ outcome' = "ok"
    /\ Rest(<<envvars, storevars, todo, dir_overview, scans, idx, inputs,
                   pending, ops, meta0, passes, edits, aborted, svars, evars, kvars, dvars,
              fvars, rvars, cvars>>)

\* The embedding request issued as soon as an input is queued, before the
\* loop over the scans has ended.
GenerateEmbeddingsEarly ==
    /\ pc = "diff"
    /\ inputs # <<>>
    /\ \/ /\ pending' = generate_embeddings(inputs)
          /\ ops' = ops \o EmbedCalls(inputs)
          /\ pc' = "insert"
          /\ outcome' = outcome
       \/ /\ \E b \in 1..NumBatches(inputs) :
                 ops' = ops \o EmbedCalls(SubSeq(inputs, 1,
                                              Min(b * BATCH_SIZE, Len(inputs))))
          /\ pending' = pending
          /\ pc' = "done"
          /\ outcome' = "err"
    /\ Rest(<<envvars, storevars, todo, dir_overview, scans, idx, inputs,
                   meta0, passes, edits, aborted, svars, evars, kvars, dvars,
              fvars, rvars, cvars>>)

\* generate_embeddings(&inputs)?: every call of a batch is made; a failed
\* call fails its batch and no later batch starts.
\* The results are taken in the order of the inputs; StartCall .. BatchEnd
\* run the same call by call, in every completion order.
GenerateEmbeddings ==
    /\ pc = "diff"
    /\ idx > Len(scans)
    /\ inputs # <<>>
    /\ \/ /\ pending' = generate_embeddings(inputs)
          /\ ops' = ops \o EmbedCalls(inputs)
          /\ pc' = "insert"
          /\ outcome' = outcome
       \/ /\ \E b \in 1..NumBatches(inputs) :
                 ops' = ops \o EmbedCalls(SubSeq(inputs, 1,
                                              Min(b * BATCH_SIZE, Len(inputs))))
          /\ pending' = pending
          /\ pc' = "done"
          /\ outcome' = "err"
    /\ Rest(<<envvars, storevars, todo, dir_overview, scans, idx, inputs,
                   meta0, passes, edits, aborted, svars, evars, kvars, dvars,
              fvars, rvars, cvars>>)

\* insert_embeddings(embeddings)?: the transaction commits, or it fails and
\* rolls back; the closure's Result is dropped by `.await?;` so the caller
\* gets Ok(()) either way.
InsertEmbeddings ==
    /\ pc = "insert"
    /\ \/ /\ embeddings' = insert_embeddings(embeddings, pending)
          /\ ops' = Append(ops, Op("insert_embeddings", PathsOf(pending)))
       \/ /\ embeddings' = embeddings
          /\ ops' = ops
    /\ pc' = "done"
    /\ outcome' = "ok"
    /\ Rest(<<envvars, file_meta, todo, dir_overview, scans, idx, inputs,
                   pending, meta0, passes, edits, aborted, svars, evars, kvars, dvars,
              fvars, rvars, cvars>>)

\* The paths a pass has issued delete_embeddings_for_path for.
DeletedPaths(log) ==
    UNION {log[k].paths : k \in {j \in 1..Len(log) :
                                     log[j].op = "delete_embeddings_for_path"}}

\* The caller has the result; the locals of the pass are dropped.
Return ==
    /\ pc = "done"
    /\ pc' = "idle"
    /\ outcome' = "none"
    /\ todo' = <<>>
    /\ dir_overview' = <<>>
    /\ scans' = <<>>
    /\ idx' = 1
    /\ inputs' = <<>>
    /\ pending' = <<>>
    /\ ops' = <<>>
    /\ meta0' = [p \in {} |-> EmptyString]
    /\ aborted' = IF outcome = "err"
                  THEN aborted \cup DeletedPaths(ops)
                  ELSE aborted \ {todo[k] : k \in 1..Len(todo)}
    /\ Rest(<<envvars, storevars, passes, edits, svars, evars, kvars, dvars,
              fvars, rvars, cvars>>)

\* ------------------------------------------------------------------------
\* Query
\* ------------------------------------------------------------------------

TOP_K == 50

is_project_level(question) ==
    \/ contains(to_lowercase(question), S_project)
    \/ contains(to_lowercase(question), S_what_is)

\* relevant_chunks after the README and the directory tree were prepended.
QueryContext(question, relevant_chunks) ==
    IF is_project_level(question)
    THEN LET with_readme == IF readme THEN <<<<"FILE: README.md">>>> \o relevant_chunks
                            ELSE relevant_chunks
             overview == directory_overview(dirs, 8, 2000)
         IN  IF overview # <<>>
             THEN <<<<"DIRECTORY TREE", overview>>>> \o with_readme
             ELSE with_readme
    ELSE relevant_chunks

\* relevant_chunks.join("\n\n").is_empty(): every piece is a non-empty
\* string, so the joined context is empty iff there is no piece.
\* A context test that never finds the context empty.
ContextNeverEmpty(pieces) == FALSE

ContextIsEmpty(pieces) == pieces = <<>>

NoContextMessage == <<"No relevant code context found for this query.">>

QueryRecord(question, all, result, completions, pieces) ==
    [question |-> question, stored |-> Len(all), result |-> result,
     completions |-> completions, context |-> pieces]

\* A query that drops the rows it has read.
query_dropping_rows(question, feedback) ==
    /\ last_query' = QueryRecord(question, get_all_embeddings(embeddings),
                                 <<"Err">>, 0, <<>>)
    /\ embeddings' = <<>>
    /\ UNCHANGED <<envvars, file_meta, passvars, edits, aborted, svars, evars, kvars,
          dvars, fvars, rvars, cvars>>

query_with_feedback(question, feedback) ==
    LET query_embedding == generate_embedding(question)
        all_embeddings == get_all_embeddings(embeddings)
        relevant_chunks == find_relevant_chunks(query_embedding, all_embeddings, TOP_K)
        pieces == QueryContext(question, relevant_chunks)
        feedback_part == IF feedback = <<>> THEN <<>>
                         ELSE <<"User feedback for improvement", feedback>>
        prompt == [question |-> question, feedback_part |-> feedback_part,
                   context |-> pieces]
    IN  /\ \/ \* generate_embedding(question)? or get_all_embeddings()? failed
              last_query' = QueryRecord(question, all_embeddings, <<"Err">>, 0, <<>>)
           \/ /\ ContextIsEmpty(pieces)
              /\ last_query' = QueryRecord(question, all_embeddings,
                                           <<"Ok", NoContextMessage>>, 0, pieces)
           \/ /\ ~ContextIsEmpty(pieces)
              /\ \/ last_query' = QueryRecord(question, all_embeddings,
                                     <<"Ok", generate_response(prompt)>>, 1, pieces)
                 \/ \* generate_response failed
                    last_query' = QueryRecord(question, all_embeddings,
                                              <<"Err">>, 1, pieces)
        /\ UNCHANGED <<envvars, storevars, passvars, edits, aborted, svars, evars, kvars, dvars,
              fvars, rvars, cvars>>

query == \E question \in Questions : query_with_feedback(question, <<>>)

QueryWithFeedback ==
    \E question \in Questions : \E feedback \in Feedbacks \ {<<>>} :
        query_with_feedback(question, feedback)

\* ------------------------------------------------------------------------
\* The tree changes between passes
\* ------------------------------------------------------------------------

WriteFile ==
    /\ pc = "idle"
    /\ edits < MaxEdits
    /\ \E p \in {AllPaths[k] : k \in 1..Len(AllPaths)} :
       \E c \in Contents :
          /\ IF p \in DOMAIN files THEN files[p] # c ELSE TRUE
          /\ files' = [q \in (DOMAIN files) \cup {p} |-> IF q = p THEN c ELSE files[q]]
          /\ aborted' = aborted \ {p}
    /\ edits' = edits + 1
    /\ Rest(<<dirs, readme, storevars, passvars, svars, evars, kvars, dvars,
              fvars, rvars, cvars>>)

RemoveFile ==
    /\ pc = "idle"
    /\ edits < MaxEdits
    /\ \E p \in DOMAIN files :
          /\ files' = [q \in (DOMAIN files) \ {p} |-> files[q]]
          /\ aborted' = aborted \ {p}
    /\ edits' = edits + 1
    /\ Rest(<<dirs, readme, storevars, passvars, svars, evars, kvars, dvars,
              fvars, rvars, cvars>>)

DirParent(rel) ==
    (CHOOSE d \in {DirUniverse[k] : k \in 1..Len(DirUniverse)} : d.rel = rel).parent

ChangeDirs ==
    /\ pc = "idle"
    /\ edits < MaxEdits
    /\ \E d \in {DirUniverse[k].rel : k \in 1..Len(DirUniverse)} :
          \/ /\ d \notin dirs
             /\ DirParent(d) \in dirs \cup {RootDir}
             /\ dirs' = dirs \cup {d}
          \/ /\ d \in dirs
             /\ \A e \in dirs : DirParent(e) # d
             /\ dirs' = dirs \ {d}
    /\ edits' = edits + 1
    /\ aborted' = aborted \ {DirKey}
    /\ Rest(<<files, readme, storevars, passvars, svars, evars, kvars, dvars,
              fvars, rvars, cvars>>)

\* ------------------------------------------------------------------------
\* Specification of the orchestrator
\* ------------------------------------------------------------------------

\* ------------------------------------------------------------------------
\* generate_embeddings call by call (embedder.rs), for the end of a pass:
\*     let embeddings = self.embedder.generate_embeddings(&inputs).await?;
\*     self.storage.insert_embeddings(embeddings).await?;
\* ------------------------------------------------------------------------

\* buffer_unordered(8)
BUFFER_UNORDERED == 8

\* Bounds of the model
MaxTail == 2
MaxFailures == 1

EmbedIdle ==
    /\ e_base = 0
    /\ e_started = 0
    /\ e_inflight = EmptyBag
    /\ e_results = <<>>
    /\ e_out = <<>>
    /\ e_failures = 0
    /\ e_rows0 = <<>>

\* inputs.chunks(BATCH_SIZE): the length and number of the current chunk.
BatchLen == Min(BATCH_SIZE, Len(inputs) - e_base)
BatchNo == e_base \div BATCH_SIZE

\* The stream takes the next future while fewer than 8 are in its queue.
CanStartUnbounded == e_started < BatchLen

CanStart ==
    /\ e_started < BatchLen
    /\ BagCardinality(e_inflight) < BUFFER_UNORDERED

\* The future of one input: the async block of generate_batch_embeddings.
Call(input) == [input |-> input, batch |-> BatchNo]

StartCall ==
    /\ pc = "embed"
    /\ CanStart
    /\ e_inflight' = e_inflight (+) SetToBag({Call(inputs[e_base + e_started + 1])})
    /\ e_started' = e_started + 1
    /\ Rest(<<envvars, storevars, passvars, edits, aborted, svars,
              e_base, e_results, e_out, e_failures, e_rows0,
              kvars, dvars,
              fvars, rvars, cvars>>)

\* An Embedding that takes id, text and path from the input at the position
\* at which the call completed.
EmbeddingByPosition(call, position) ==
    Embedding(inputs[position].id, generate_embedding(call.input.text),
              inputs[position].text, inputs[position].path)

\* Ok(Embedding {id: input.id.clone(), vector, text: .., path: ..})
EmbeddingOf(call, position) ==
    Embedding(call.input.id, generate_embedding(call.input.text),
              call.input.text, call.input.path)

\* A call in flight completes; the stream yields its result. The stream
\* refills its queue before it polls the calls in flight.
CompleteCall ==
    /\ pc = "embed"
    /\ ~CanStart
    /\ \E call \in BagToSet(e_inflight) :
          /\ e_inflight' = e_inflight (-) SetToBag({call})
          /\ e_results' = Append(e_results,
                 <<"Ok", EmbeddingOf(call, e_base + Len(e_results) + 1)>>)
    /\ Rest(<<envvars, storevars, passvars, edits, aborted, svars,
              e_base, e_started, e_out, e_failures, e_rows0,
              kvars, dvars,
              fvars, rvars, cvars>>)

\* client.generate_embedding(&input.text).await? fails.
FailCall ==
    /\ pc = "embed"
    /\ ~CanStart
    /\ e_failures < MaxFailures
    /\ \E call \in BagToSet(e_inflight) :
          /\ e_inflight' = e_inflight (-) SetToBag({call})
          /\ e_results' = Append(e_results, <<"Err">>)
    /\ e_failures' = e_failures + 1
    /\ Rest(<<envvars, storevars, passvars, edits, aborted, svars,
              e_base, e_started, e_out, e_rows0,
              kvars, dvars,
              fvars, rvars, cvars>>)

\* The same without waiting for the calls in flight.
BatchCollectedEarly == e_started = BatchLen

\* The stream is exhausted: collect::<Vec<_>>().await returns.
BatchCollected == e_started = BatchLen /\ e_inflight = EmptyBag

OkValues(results) ==
    LET oks == SelectSeq(results, LAMBDA r : r[1] = "Ok")
    IN  [k \in 1..Len(oks) |-> oks[k][2]]

\* A collect that drops the failed results.
CollectBatchPartial(results) == Some(OkValues(results))

\* results.into_iter().collect::<Result<Vec<_>>>()
CollectBatch(results) ==
    IF \E k \in 1..Len(results) : results[k][1] = "Err" THEN None
    ELSE Some(OkValues(results))

\* The end of one iteration of `for chunk in inputs.chunks(BATCH_SIZE)`, and
\* with the last one the return of generate_embeddings to the pass.
BatchEnd ==
    /\ pc = "embed"
    /\ BatchCollected
    /\ LET batch_embeddings == CollectBatch(e_results)
       IN  IF batch_embeddings = None
           THEN /\ pc' = "done"
                /\ outcome' = "err"
                /\ e_out' = <<>>
                /\ UNCHANGED <<pending, e_base>>
           ELSE /\ e_out' = e_out \o batch_embeddings[1]
                /\ e_base' = e_base + BatchLen
                /\ IF e_base + BatchLen = Len(inputs)
                   THEN pc' = "insert" /\ pending' = e_out \o batch_embeddings[1]
                   ELSE pc' = pc /\ pending' = pending
                /\ outcome' = outcome
    /\ e_started' = 0
    /\ e_results' = <<>>
    /\ Rest(<<envvars, storevars, todo, dir_overview, scans, idx, inputs, ops,
              meta0, passes, edits, aborted, svars, e_inflight, e_failures,
              e_rows0,
              kvars, dvars,
              fvars, rvars, cvars>>)

\* ------------------------------------------------------------------------
\* EmbeddingStorage's connection: conn: Arc<Mutex<Connection>>, taken by every
\* operation with conn.blocking_lock() for the whole of its closure
\* ------------------------------------------------------------------------

MaxCallers == 2
MaxStoreCalls == 3

Callers == 1..MaxCallers
NoCaller == 0

NoStoreOp == [op |-> "none", path |-> "", hash |-> <<>>, batch |-> <<>>]

\* No caller is using the store.
StoreIdle ==
    /\ k_lock = NoCaller
    /\ k_pc = [c \in Callers |-> "idle"]
    /\ k_op = [c \in Callers |-> NoStoreOp]
    /\ k_i = [c \in Callers |-> 0]
    /\ k_acc = [c \in Callers |-> <<>>]
    /\ k_stable = <<>>
    /\ k_calls = 0

\* ------------------------------------------------------------------------
\* The database file's schema, as setup_db finds and leaves it
\* ------------------------------------------------------------------------

Schema(tables, emb_cols, indexes) ==
    [tables |-> tables, emb_cols |-> emb_cols, indexes |-> indexes]

\* No database file yet: Connection::open creates an empty one.
AbsentSchema == Schema({}, <<>>, {})

\* What setup_db's CREATE TABLE embeddings declares.
EmbeddingsColumns == <<"id", "vector", "text", "path">>

\* An older database: embeddings without the column path.
OlderSchema == Schema({"embeddings"}, <<"id", "vector", "text">>, {})

MigratedSchema ==
    Schema({"embeddings", "file_meta"}, EmbeddingsColumns,
           {"idx_embeddings_vector", "idx_embeddings_path"})

\* The store is open on a migrated database; setup_db is not running.
SchemaIdle ==
    /\ d_pc = "open"
    /\ d_schema = MigratedSchema
    /\ d_has_path = FALSE
    /\ d_opens = 0
    /\ d_failures = 0
    /\ d_start = <<>>

\* No function is being called on its own.
CallIdle ==
    /\ f_op = "none"
    /\ f_in = <<>>
    /\ f_out = <<>>

\* Neither confirm_and_run nor confirm_and_run_multi_step has been called.
RunnerIdle ==
    /\ r_pc = "off"
    /\ r_fn = "none"
    /\ r_cmd = <<>>
    /\ r_config = FALSE
    /\ r_assessment = <<>>
    /\ r_log = <<>>
    /\ r_result = "none"

\* The explain cache is not in use.
CacheIdle ==
    /\ c_file = <<>>
    /\ c_now = 0
    /\ c_saves = <<>>
    /\ c_ret = <<>>

SearchIdle ==
    /\ s_pc = "off"
    /\ s_query = <<>>
    /\ s_corpus = <<>>
    /\ s_top_k = 0
    /\ s_i = 1
    /\ s_heap = <<>>
    /\ s_score = cosine_similarity(<<>>, <<>>)
    /\ s_results = <<>>

Init ==
    /\ files = [p \in {PathA} |-> T_two]
    /\ dirs = {"src"}
    /\ readme \in BOOLEAN
    /\ embeddings = <<>>
    /\ file_meta = [p \in {} |-> EmptyString]
    /\ pc = "idle"
    /\ todo = <<>>
    /\ dir_overview = <<>>
    /\ scans = <<>>
    /\ idx = 1
    /\ inputs = <<>>
    /\ pending = <<>>
    /\ ops = <<>>
    /\ meta0 = [p \in {} |-> EmptyString]
    /\ outcome = "none"
    /\ last_query = NoQuery
    /\ passes = 0
    /\ edits = 0
    /\ aborted = {}
    /\ SearchIdle
    /\ EmbedIdle
    /\ StoreIdle
    /\ SchemaIdle
    /\ CallIdle
    /\ RunnerIdle
    /\ CacheIdle

Next ==
    \/ build_index
    \/ build_index_for_keywords
    \/ OverviewGetHash
    \/ OverviewDelete
    \/ OverviewUpsert
    \/ ScanPaths
    \/ DiffSkip
    \/ DiffGetHash
    \/ DiffDelete
    \/ DiffUpsert
    \/ FinishEmpty
    \/ GenerateEmbeddings
    \/ InsertEmbeddings
    \/ Return
    \/ query
    \/ QueryWithFeedback
    \/ WriteFile
    \/ RemoveFile
    \/ ChangeDirs

Spec == Init /\ [][Next]_vars

\* ------------------------------------------------------------------------
\* Specification of find_relevant_chunks: the inputs are drawn by the
\* initial condition, one action per loop iteration, one for the tail.
\* ------------------------------------------------------------------------

\* Bounds of the model
MaxCorpus == 4
MaxTopK == 3

Vectors == {<<1, 0>>, <<1, 1>>, <<0, 1>>, <<-1, 0>>, <<0, 0>>}
QueryVectors == {<<1, 0>>, <<0, 0>>}

\* The text of the k-th stored embedding.
TextName(k) == <<"text", k>>

Corpora ==
    UNION {{[k \in 1..n |-> Embedding(<<"id", k>>, vs[k], TextName(k), PathA)] :
               vs \in [1..n -> Vectors]} : n \in 0..MaxCorpus}

OrchestratorIdle ==
    /\ files = [p \in {} |-> T_empty]
    /\ dirs = {}
    /\ readme = FALSE
    /\ embeddings = <<>>
    /\ file_meta = [p \in {} |-> EmptyString]
    /\ pc = "off"
    /\ todo = <<>>
    /\ dir_overview = <<>>
    /\ scans = <<>>
    /\ idx = 1
    /\ inputs = <<>>
    /\ pending = <<>>
    /\ ops = <<>>
    /\ meta0 = [p \in {} |-> EmptyString]
    /\ outcome = "none"
    /\ last_query = NoQuery
    /\ passes = 0
    /\ edits = 0
    /\ aborted = {}
    /\ EmbedIdle
    /\ StoreIdle
    /\ SchemaIdle
    /\ CallIdle
    /\ RunnerIdle
    /\ CacheIdle

ovars == <<envvars, storevars, passvars, last_query, edits, aborted, evars,
          kvars, dvars,
              fvars, rvars, cvars>>

SearchInit ==
    /\ OrchestratorIdle
    /\ s_pc = "loop"
    /\ s_query \in QueryVectors
    /\ s_corpus \in Corpora
    /\ s_top_k \in 0..MaxTopK
    /\ s_i = 1
    /\ s_heap = <<>>
    /\ s_score = cosine_similarity(<<>>, <<>>)
    /\ s_results = <<>>

\* One iteration of `for emb in embeddings`.
SearchStep ==
    /\ s_pc = "loop"
    /\ s_i <= Len(s_corpus)
    /\ s_score' = cosine_similarity(s_query, s_corpus[s_i].vector)
    /\ s_heap' = HeapStep(s_heap, s_query, s_corpus[s_i], s_top_k)
    /\ s_i' = s_i + 1
    /\ UNCHANGED <<ovars, s_pc, s_query, s_corpus, s_top_k, s_results>>

\* After the loop: sort, take top_k, return the texts.
SearchCollect ==
    /\ s_pc = "loop"
    /\ s_i > Len(s_corpus)
    /\ s_results' = TextsOf(CollectResults(s_heap, s_top_k))
    /\ s_pc' = "done"
    /\ UNCHANGED <<ovars, s_query, s_corpus, s_top_k, s_i, s_heap, s_score>>

SearchNext == SearchStep \/ SearchCollect

SpecSearch == SearchInit /\ [][SearchNext]_vars

\* ------------------------------------------------------------------------
\* The scanner alone: scan_paths over one file, for a wider set of texts
\* ------------------------------------------------------------------------

MaxParas == 3

\* Paragraphs: empty, short, two between MIN_CHUNK_SIZE and MAX_CHUNK_SIZE,
\* one above MAX_CHUNK_SIZE.
ScanParagraphs ==
    {EmptyPara, Run("a", 10), Run("a", MIN_CHUNK_SIZE + 100),
     Run("b", MIN_CHUNK_SIZE + 200), Run("a", MAX_CHUNK_SIZE + 100)}

ScanTexts ==
    UNION {[1..n -> ScanParagraphs] : n \in 1..MaxParas}

ScanInit ==
    /\ files \in [{PathA} -> ScanTexts]
    /\ dirs = {}
    /\ readme = FALSE
    /\ embeddings = <<>>
    /\ file_meta = [p \in {} |-> EmptyString]
    /\ pc = "scan"
    /\ todo = <<PathA>>
    /\ dir_overview = <<>>
    /\ scans = <<>>
    /\ idx = 1
    /\ inputs = <<>>
    /\ pending = <<>>
    /\ ops = <<>>
    /\ meta0 = [p \in {} |-> EmptyString]
    /\ outcome = "none"
    /\ last_query = NoQuery
    /\ passes = 1
    /\ edits = 0
    /\ aborted = {}
    /\ SearchIdle
    /\ EmbedIdle
    /\ StoreIdle
    /\ SchemaIdle
    /\ CallIdle
    /\ RunnerIdle
    /\ CacheIdle

ScanNext == ScanPaths

SpecScan == ScanInit /\ [][ScanNext]_vars

\* ------------------------------------------------------------------------
\* The end of a pass alone: generate_embeddings, then insert_embeddings
\* ------------------------------------------------------------------------

EmbedInput(k) == ChunkInput(FileChunk(PathA, <<Run("a", 1)>>, k))

Repeat(x, n) == [i \in 1..n |-> x]

EmbedTails == UNION {[1..n -> {EmbedInput(1), EmbedInput(2)}] : n \in 1..MaxTail}

\* Inputs: none, a full window or a full batch of one input, then one to
\* MaxTail inputs of other ids.
EmbedInputLists ==
    {Repeat(EmbedInput(0), n) \o tail :
        n \in {0, BUFFER_UNORDERED, BATCH_SIZE}, tail \in EmbedTails}

\* A stored row with the id of EmbedInput(1) and another vector, text and
\* path, and the row of the overview.
OldRow ==
    EmbeddingRow(EmbedInput(1).id, bincode_serialize(<<7, 7>>),
                 <<"FILE", PathB, 1, <<Run("o", 1)>>>>, PathB)

OverviewRow ==
    EmbeddingRow(<<DirKey, 0>>, bincode_serialize(<<0, 1>>),
                 <<"DIRECTORY TREE", <<>>>>, DirKey)

EmbedTables == {<<>>, <<OldRow, OverviewRow>>}

EmbedInit ==
    /\ files = [p \in {} |-> T_empty]
    /\ dirs = {}
    /\ readme = FALSE
    /\ embeddings \in EmbedTables
    /\ file_meta = [p \in {} |-> EmptyString]
    /\ pc = "embed"
    /\ todo = <<>>
    /\ dir_overview = <<>>
    /\ scans = <<>>
    /\ idx = 1
    /\ inputs \in EmbedInputLists
    /\ pending = <<>>
    /\ ops = <<>>
    /\ meta0 = [p \in {} |-> EmptyString]
    /\ outcome = "none"
    /\ last_query = NoQuery
    /\ passes = 1
    /\ edits = 0
    /\ aborted = {}
    /\ SearchIdle
    /\ e_base = 0
    /\ e_started = 0
    /\ e_inflight = EmptyBag
    /\ e_results = <<>>
    /\ e_out = <<>>
    /\ e_failures = 0
    /\ e_rows0 = embeddings
    /\ StoreIdle
    /\ SchemaIdle
    /\ CallIdle
    /\ RunnerIdle
    /\ CacheIdle

EmbedNext ==
    \/ StartCall
    \/ CompleteCall
    \/ FailCall
    \/ BatchEnd
    \/ InsertEmbeddings

SpecEmbed == EmbedInit /\ [][EmbedNext]_vars

\* ------------------------------------------------------------------------
\* The store alone: callers of one EmbeddingStorage running its operations
\* concurrently, statement by statement
\* ------------------------------------------------------------------------

StoreBatch == generate_embeddings(<<EmbedInput(0), EmbedInput(1)>>)

StoreHash == md5(TextBytes(T_hello))

StoreOp(op, path, hash, batch) ==
    [op |-> op, path |-> path, hash |-> hash, batch |-> batch]

\* The operations a caller can call, with their arguments.
StoreOps ==
    {StoreOp("insert_embeddings", "", <<>>, StoreBatch),
     StoreOp("get_all_embeddings", "", <<>>, <<>>)}
    \cup {StoreOp("get_file_hash", p, <<>>, <<>>) : p \in {PathA, PathB}}
    \cup {StoreOp("upsert_file_hash", p, StoreHash, <<>>) : p \in {PathA, PathB}}
    \cup {StoreOp("delete_embeddings_for_path", p, <<>>, <<>>) :
              p \in {PathA, PathB}}

\* A caller calls an operation: its closure is spawned and asks for the lock.
StoreCall(c) ==
    /\ k_pc[c] = "idle"
    /\ k_calls < MaxStoreCalls
    /\ \E op \in StoreOps : k_op' = [k_op EXCEPT ![c] = op]
    /\ k_pc' = [k_pc EXCEPT ![c] = "wait"]
    /\ k_calls' = k_calls + 1
    /\ Rest(<<envvars, storevars, passvars, edits, aborted, svars, evars,
              k_lock, k_i, k_acc, k_stable, dvars, fvars, rvars, cvars>>)

\* A lock that is handed out while another caller holds it.
LockNotAwaited == TRUE

\* tokio::sync::Mutex: the lock is free.
LockFree == k_lock = NoCaller

\* let conn = conn.blocking_lock(): returns when the lock is free.
BlockingLock(c) ==
    /\ k_pc[c] = "wait"
    /\ LockFree
    /\ k_lock' = c
    /\ k_pc' = [k_pc EXCEPT ![c] = "body"]
    /\ k_i' = [k_i EXCEPT ![c] = 0]
    /\ k_acc' = [k_acc EXCEPT ![c] = <<>>]
    /\ Rest(<<envvars, storevars, passvars, edits, aborted, svars, evars,
              k_op, k_stable, k_calls, dvars,
              fvars, rvars, cvars>>)

InBody(c, op) == k_pc[c] = "body" /\ k_op[c].op = op

\* The closure returns and drops the guard `conn`.
DropGuard(c, rows, meta) ==
    /\ embeddings' = rows
    /\ file_meta' = meta
    /\ k_lock' = NoCaller
    /\ k_pc' = [k_pc EXCEPT ![c] = "idle"]
    /\ k_stable' = <<rows, meta>>

\* insert_embeddings: stmt.execute of the next element, inside the
\* transaction.
InsertExecute(c) ==
    /\ InBody(c, "insert_embeddings")
    /\ k_i[c] < Len(k_op[c].batch)
    /\ embeddings' = InsertOrReplace(embeddings, k_op[c].batch[k_i[c] + 1])
    /\ k_i' = [k_i EXCEPT ![c] = k_i[c] + 1]
    /\ Rest(<<envvars, file_meta, passvars, edits, aborted, svars, evars,
              k_lock, k_pc, k_op, k_acc, k_stable, k_calls, dvars,
              fvars, rvars, cvars>>)

\* insert_embeddings: tx.commit()
InsertCommit(c) ==
    /\ InBody(c, "insert_embeddings")
    /\ k_i[c] = Len(k_op[c].batch)
    /\ DropGuard(c, embeddings, file_meta)
    /\ Rest(<<envvars, passvars, edits, aborted, svars, evars,
              k_op, k_i, k_acc, k_calls, dvars,
              fvars, rvars, cvars>>)

\* insert_embeddings: a statement or the commit fails; `tx` is dropped, which
\* rolls the transaction back, and then the guard is dropped.
InsertRollback(c) ==
    /\ InBody(c, "insert_embeddings")
    /\ DropGuard(c, k_stable[1], file_meta)
    /\ Rest(<<envvars, passvars, edits, aborted, svars, evars,
              k_op, k_i, k_acc, k_calls, dvars,
              fvars, rvars, cvars>>)

\* get_all_embeddings: rows.next() gives a row, which is pushed.
ReadRow(c) ==
    /\ InBody(c, "get_all_embeddings")
    /\ k_i[c] < Len(embeddings)
    /\ k_acc' = [k_acc EXCEPT
                    ![c] = Append(k_acc[c],
                                  get_all_embeddings(embeddings)[k_i[c] + 1])]
    /\ k_i' = [k_i EXCEPT ![c] = k_i[c] + 1]
    /\ Rest(<<envvars, storevars, passvars, edits, aborted, svars, evars,
              k_lock, k_pc, k_op, k_stable, k_calls, dvars,
              fvars, rvars, cvars>>)

\* get_all_embeddings: rows.next() gives None; Ok(embeddings).
ReadEnd(c) ==
    /\ InBody(c, "get_all_embeddings")
    /\ k_i[c] >= Len(embeddings)
    /\ DropGuard(c, embeddings, file_meta)
    /\ Rest(<<envvars, passvars, edits, aborted, svars, evars,
              k_op, k_i, k_acc, k_calls, dvars,
              fvars, rvars, cvars>>)

\* get_file_hash: one SELECT.
GetFileHash(c) ==
    /\ InBody(c, "get_file_hash")
    /\ k_acc' = [k_acc EXCEPT ![c] = get_file_hash(file_meta, k_op[c].path)]
    /\ DropGuard(c, embeddings, file_meta)
    /\ Rest(<<envvars, passvars, edits, aborted, svars, evars,
              k_op, k_i, k_calls, dvars,
              fvars, rvars, cvars>>)

\* upsert_file_hash: one INSERT OR REPLACE.
UpsertFileHash(c) ==
    /\ InBody(c, "upsert_file_hash")
    /\ DropGuard(c, embeddings,
                 upsert_file_hash(file_meta, k_op[c].path, k_op[c].hash))
    /\ Rest(<<envvars, passvars, edits, aborted, svars, evars,
              k_op, k_i, k_acc, k_calls, dvars,
              fvars, rvars, cvars>>)

\* delete_embeddings_for_path: one DELETE.
DeleteEmbeddings(c) ==
    /\ InBody(c, "delete_embeddings_for_path")
    /\ DropGuard(c, delete_embeddings_for_path(embeddings, k_op[c].path),
                 file_meta)
    /\ Rest(<<envvars, passvars, edits, aborted, svars, evars,
              k_op, k_i, k_acc, k_calls, dvars,
              fvars, rvars, cvars>>)

StoreInit ==
    /\ files = [p \in {} |-> T_empty]
    /\ dirs = {}
    /\ readme = FALSE
    /\ embeddings \in EmbedTables
    /\ file_meta \in {[p \in {} |-> EmptyString],
                      [p \in {PathA} |-> md5(TextBytes(T_two))]}
    /\ pc = "off"
    /\ todo = <<>>
    /\ dir_overview = <<>>
    /\ scans = <<>>
    /\ idx = 1
    /\ inputs = <<>>
    /\ pending = <<>>
    /\ ops = <<>>
    /\ meta0 = [p \in {} |-> EmptyString]
    /\ outcome = "none"
    /\ last_query = NoQuery
    /\ passes = 0
    /\ edits = 0
    /\ aborted = {}
    /\ SearchIdle
    /\ EmbedIdle
    /\ k_lock = NoCaller
    /\ k_pc = [c \in Callers |-> "idle"]
    /\ k_op = [c \in Callers |-> NoStoreOp]
    /\ k_i = [c \in Callers |-> 0]
    /\ k_acc = [c \in Callers |-> <<>>]
    /\ k_stable = <<embeddings, file_meta>>
    /\ k_calls = 0
    /\ SchemaIdle
    /\ CallIdle
    /\ RunnerIdle
    /\ CacheIdle

StoreNext ==
    \E c \in Callers :
        \/ StoreCall(c)
        \/ BlockingLock(c)
        \/ InsertExecute(c)
        \/ InsertCommit(c)
        \/ InsertRollback(c)
        \/ ReadRow(c)
        \/ ReadEnd(c)
        \/ GetFileHash(c)
        \/ UpsertFileHash(c)
        \/ DeleteEmbeddings(c)

SpecStore == StoreInit /\ [][StoreNext]_vars

\* ------------------------------------------------------------------------
\* Opening the store: EmbeddingStorage::new runs setup_db, statement by
\* statement, on whatever database file it finds
\* ------------------------------------------------------------------------

MaxOpens == 3
MaxSetupFailures == 2

\* A row written under the older schema: no column path.
OlderRow == [id |-> <<PathA, 0>>, vector |-> bincode_serialize(<<7, 7>>),
             text |-> <<"old text">>]

\* The database files an open can find: schema, embeddings rows, file_meta.
Databases ==
    {<<AbsentSchema, <<>>, [p \in {} |-> EmptyString]>>,
     <<OlderSchema, <<>>, [p \in {} |-> EmptyString]>>,
     <<OlderSchema, <<OlderRow>>, [p \in {} |-> EmptyString]>>,
     <<Schema({"embeddings", "file_meta"}, <<"id", "vector", "text">>,
              {"idx_embeddings_vector"}),
       <<OlderRow>>, [p \in {PathA} |-> md5(TextBytes(T_two))]>>,
     <<MigratedSchema, <<>>, [p \in {} |-> EmptyString]>>,
     <<MigratedSchema, <<OldRow, OverviewRow>>,
       [p \in {PathB} |-> md5(TextBytes(T_hello))]>>}

\* A CREATE TABLE that replaces the rows of an existing table.
RowsAfterCreateAnew(schema, table, rows, empty) == empty

\* CREATE TABLE IF NOT EXISTS: an existing table keeps its rows.
RowsAfterCreate(schema, table, rows, empty) ==
    IF table \in schema.tables THEN rows ELSE empty

\* CREATE TABLE IF NOT EXISTS embeddings (id, vector, text, path DEFAULT '')
CreateEmbeddings(schema) ==
    IF "embeddings" \in schema.tables THEN schema
    ELSE Schema(schema.tables \cup {"embeddings"}, EmbeddingsColumns,
                schema.indexes)

\* CREATE INDEX IF NOT EXISTS name
CreateIndex(schema, name) ==
    Schema(schema.tables, schema.emb_cols, schema.indexes \cup {name})

\* CREATE TABLE IF NOT EXISTS file_meta (path, hash)
CreateFileMeta(schema) ==
    Schema(schema.tables \cup {"file_meta"}, schema.emb_cols, schema.indexes)

\* The schema after the first n of the three CREATE statements of the batch.
BatchSchema(schema, n) ==
    LET s1 == IF n >= 1 THEN CreateEmbeddings(schema) ELSE schema
        s2 == IF n >= 2 THEN CreateIndex(s1, "idx_embeddings_vector") ELSE s1
    IN  IF n >= 3 THEN CreateFileMeta(s2) ELSE s2

\* PRAGMA table_info(embeddings): is there a column named path.
HasPath(schema) == \E k \in 1..Len(schema.emb_cols) : schema.emb_cols[k] = "path"

\* ALTER TABLE embeddings ADD COLUMN path TEXT NOT NULL DEFAULT '': the
\* rows there are get the default.
AddPathColumn(rows) ==
    [k \in 1..Len(rows) |->
        EmbeddingRow(rows[k].id, rows[k].vector, rows[k].text, EmptyString)]

SetupFails ==
    /\ d_failures < MaxSetupFailures
    /\ d_failures' = d_failures + 1
    /\ d_pc' = "failed"

\* EmbeddingStorage::new: Connection::open(&db_path), then setup_db.
OpenStore ==
    /\ d_pc \in {"open", "failed"}
    /\ d_opens < MaxOpens
    /\ d_opens' = d_opens + 1
    /\ d_pc' = "batch"
    /\ d_start' = <<d_schema, embeddings, file_meta>>
    /\ d_has_path' = FALSE
    /\ Rest(<<envvars, storevars, passvars, edits, aborted, svars, evars,
              kvars, d_schema, d_failures, fvars, rvars, cvars>>)

\* conn.execute_batch(..)?: the statements run one by one, each committed on
\* its own; a failing statement leaves those before it in place.
ExecuteBatch ==
    /\ d_pc = "batch"
    /\ \/ /\ d_schema' = BatchSchema(d_schema, 3)
          /\ d_pc' = "table_info"
          /\ d_failures' = d_failures
       \/ /\ \E n \in 0..2 : d_schema' = BatchSchema(d_schema, n)
          /\ SetupFails
    /\ embeddings' = RowsAfterCreate(d_schema, "embeddings", embeddings, <<>>)
    /\ file_meta' = RowsAfterCreate(d_schema, "file_meta", file_meta,
                                    [p \in {} |-> EmptyString])
    /\ Rest(<<envvars, passvars, edits, aborted, svars, evars, kvars,
              d_has_path, d_opens, d_start, fvars, rvars, cvars>>)

\* PRAGMA table_info(embeddings) and the loop over its rows.
TableInfo ==
    /\ d_pc = "table_info"
    /\ \/ /\ d_has_path' = HasPath(d_schema)
          /\ d_pc' = IF HasPath(d_schema) THEN "index" ELSE "alter"
          /\ d_failures' = d_failures
       \/ /\ d_has_path' = d_has_path
          /\ SetupFails
    /\ Rest(<<envvars, storevars, passvars, edits, aborted, svars, evars,
              kvars, d_schema, d_opens, d_start, fvars, rvars, cvars>>)

\* if !has_path { ALTER TABLE embeddings ADD COLUMN path .. }
AlterTable ==
    /\ d_pc = "alter"
    /\ \/ /\ d_schema' = Schema(d_schema.tables,
                                Append(d_schema.emb_cols, "path"),
                                d_schema.indexes)
          /\ embeddings' = AddPathColumn(embeddings)
          /\ d_pc' = "index"
          /\ d_failures' = d_failures
       \/ /\ UNCHANGED <<d_schema, embeddings>>
          /\ SetupFails
    /\ Rest(<<envvars, file_meta, passvars, edits, aborted, svars, evars,
              kvars, d_has_path, d_opens, d_start, fvars, rvars, cvars>>)

\* CREATE INDEX IF NOT EXISTS idx_embeddings_path ON embeddings(path); Ok(())
CreatePathIndex ==
    /\ d_pc = "index"
    /\ \/ /\ d_schema' = CreateIndex(d_schema, "idx_embeddings_path")
          /\ d_pc' = "open"
          /\ d_failures' = d_failures
       \/ /\ d_schema' = d_schema
          /\ SetupFails
    /\ Rest(<<envvars, storevars, passvars, edits, aborted, svars, evars,
              kvars, d_has_path, d_opens, d_start, fvars, rvars, cvars>>)

SchemaInit ==
    /\ files = [p \in {} |-> T_empty]
    /\ dirs = {}
    /\ readme = FALSE
    /\ \E db \in Databases :
          /\ d_schema = db[1]
          /\ embeddings = db[2]
          /\ file_meta = db[3]
    /\ pc = "off"
    /\ todo = <<>>
    /\ dir_overview = <<>>
    /\ scans = <<>>
    /\ idx = 1
    /\ inputs = <<>>
    /\ pending = <<>>
    /\ ops = <<>>
    /\ meta0 = [p \in {} |-> EmptyString]
    /\ outcome = "none"
    /\ last_query = NoQuery
    /\ passes = 0
    /\ edits = 0
    /\ aborted = {}
    /\ SearchIdle
    /\ EmbedIdle
    /\ StoreIdle
    /\ CallIdle
    /\ RunnerIdle
    /\ CacheIdle
    /\ d_pc = "failed"
    /\ d_has_path = FALSE
    /\ d_opens = 0
    /\ d_failures = 0
    /\ d_start = <<>>

SchemaNext ==
    \/ OpenStore
    \/ ExecuteBatch
    \/ TableInfo
    \/ AlterTable
    \/ CreatePathIndex

SpecSchema == SchemaInit /\ [][SchemaNext]_vars

\* ------------------------------------------------------------------------
\* Functions called on their own, over a wider set of arguments
\* ------------------------------------------------------------------------

MaxDepthArg == 3
MaxEntriesArg == 4

DirRels == {DirUniverse[k].rel : k \in 1..Len(DirUniverse)}

\* rel lies beneath a directory of the set `above`.
RECURSIVE Beneath(_, _)
Beneath(rel, above) ==
    IF rel = RootDir THEN FALSE
    ELSE DirParent(rel) \in above \/ Beneath(DirParent(rel), above)

\* The trees: every directory's parent is there.
Trees == {t \in SUBSET DirRels : \A d \in t : DirParent(d) \in t \cup {RootDir}}

\* What read_dir shows of a tree: nothing beneath an unreadable directory.
Visible(present, unreadable) == {d \in present : ~Beneath(d, unreadable)}

WalkArgs ==
    {[fn |-> "directory_overview", present |-> t, unreadable |-> u,
      max_depth |-> d, max_entries |-> e] :
        t \in Trees, u \in {{}, {"src"}, {RootDir}},
        d \in 0..MaxDepthArg, e \in 0..MaxEntriesArg}

CollectArgs ==
    {[fn |-> "collect_files", present |-> t, unreadable |-> u, fileset |-> fl] :
        t \in {t \in Trees : "src" \in t}, u \in SUBSET {RootDir, "src", "src/app", "target"},
        fl \in SUBSET {PathA, PathB}}

P_target == <<"t", "a", "r", "g", "e", "t", "/", "x", ".", "r", "s">>
P_lock == <<"C", "a", "r", "g", "o", ".", "l", "o", "c", "k">>
P_txt == <<"n", "o", "t", "e", ".", "t", "x", "t">>

PathStringLists ==
    {<<P_a, P_target, P_b, P_lock, P_txt>>, <<P_target, P_txt>>, <<P_b>>, <<>>}

ExcludeLists == {<<>>, <<rag_exclude_patterns[1]>>, rag_exclude_patterns}
IncludeLists == {<<>>, <<rag_include_patterns[1]>>, rag_include_patterns}

FilterArgs ==
    {[fn |-> "filter_files_by_patterns", files |-> fl, excludes |-> ex,
      includes |-> inc] :
        fl \in PathStringLists, ex \in ExcludeLists, inc \in IncludeLists}

\* Trees of many files: file i of a list is ./doc/fNNN.md, ./src/fNNN.rs or
\* ./src/doc/fNNN.rs, named by its kind and number.
Digits == <<"0", "1", "2", "3", "4", "5", "6", "7", "8", "9">>

DigitChars(i) ==
    <<Digits[(i \div 100) + 1], Digits[((i \div 10) % 10) + 1], Digits[(i % 10) + 1]>>

K_doc == <<"d", "o", "c">>

K_graphql == <<"g", "r", "a", "p", "h", "q", "l">>

\* The path of file <<kind, i>>: ./doc/fNNN.md, ./src/fNNN.rs,
\* ./src/doc/fNNN.rs or ./fNNN.graphql.
ManyChars(p) ==
    LET dir == IF p[1] = "doc" THEN <<"d", "o", "c", "/">>
               ELSE IF p[1] = "src" THEN <<"s", "r", "c", "/">>
               ELSE IF p[1] = "graphql" THEN <<>>
               ELSE <<"s", "r", "c", "/", "d", "o", "c", "/">>
        ext == IF p[1] = "doc" THEN <<".", "m", "d">>
               ELSE IF p[1] = "graphql" THEN <<".">> \o K_graphql
               ELSE <<".", "r", "s">>
    IN  <<".", "/">> \o dir \o <<"f">> \o DigitChars(p[2]) \o ext

\* n files, every third one under ./src/doc, the others under ./doc or ./src.
ManyFiles(n) ==
    [i \in 1..n |-> <<IF i % 3 = 0 THEN "both" ELSE IF i % 2 = 0 THEN "src" ELSE "doc",
                      i>>]

ManyKeywordLists == {<<>>, <<K_src, K_doc>>, <<K_doc>>}

\* A few files, one of them a .graphql file: is_supported_file accepts it and
\* no include pattern of the configuration matches it.
FewFiles ==
    {<<<<"graphql", 1>>, <<"src", 2>>>>, <<<<"src", 1>>, <<"graphql", 2>>, <<"doc", 3>>>>,
     <<<<"graphql", 1>>>>}

\* Keywords: one that only the .graphql file contains, a stop word, a short
\* word, one in capitals.
FewKeywordLists ==
    {<<K_graphql>>, <<K_graphql, K_doc>>, <<<<"t", "h", "e">>>>, <<<<"r", "s">>>>,
     <<<<"S", "R", "C">>>>, <<<<"z", "z", "z">>>>}

IndexArgs ==
    {[fn |-> "build_index", files |-> ManyFiles(n), keywords |-> <<>>] :
        n \in {3, MAX_FILES, MAX_FILES + 1}}
    \cup {[fn |-> "build_index_for_keywords", files |-> ManyFiles(n),
           keywords |-> kw] :
              n \in {3, MAX_FILES, MAX_FILES + 1}, kw \in ManyKeywordLists}
    \cup {[fn |-> "build_index_for_keywords", files |-> fl, keywords |-> kw] :
              fl \in FewFiles, kw \in FewKeywordLists}

\* Names of eligible files of the root: one of valid UTF-8, two that differ
\* in one invalid byte.
N_a == <<".", "/", "a", ".", "r", "s">>
N_ff == <<".", "/", "0xFF", ".", "r", "s">>
N_fe == <<".", "/", "0xFE", ".", "r", "s">>

OsNames == {N_a, N_ff, N_fe}

\* Contents: two of one chunk, one of two chunks.
PassTexts ==
    {<<Run("a", 10)>>, <<Run("b", 10)>>,
     <<Run("a", MIN_CHUNK_SIZE + 100), Run("b", MIN_CHUNK_SIZE + 200)>>}

\* What collect_files found: one or two files of distinct names, each with
\* its content, in any order.
FoundFiles ==
    {<<[name |-> n, raw |-> t]>> : n \in OsNames, t \in PassTexts}
    \cup UNION {{<<[name |-> n1, raw |-> t1], [name |-> n2, raw |-> t2]>> :
                    n2 \in OsNames \ {n1}, t1 \in PassTexts, t2 \in PassTexts} :
                n1 \in OsNames}

PassArgs == {[fn |-> "build_index_with_files", files |-> fl] : fl \in FoundFiles}

\* Raw contents of one paragraph: text, one or two bytes of no UTF-8 text,
\* the three bytes of U+FFFD itself, and one above the size cap.
RawTexts ==
    {<<Run("a", 10)>>, <<Run("0xFF", 1)>>, <<Run("0xFE", 1)>>, <<Run("0xFF", 2)>>,
     <<Run(REPLACEMENT_CHARACTER, 3)>>, <<Run("a", max_file_bytes + 1)>>}

\* Two versions of the content of ./a.rs, scanned one after the other.
ScanArgs ==
    {[fn |-> "scan_paths",
      files |-> <<[name |-> N_a, raw |-> t1], [name |-> N_a, raw |-> t2]>>] :
        t1 \in RawTexts, t2 \in RawTexts}

\* Texts of one paragraph up to two and a half windows, and one of two
\* paragraphs that fills two windows.
FixedTexts ==
    {<<Run("a", n)>> : n \in {0, 1, CHUNK_SIZE, CHUNK_SIZE + 1,
                              2 * CHUNK_SIZE - OVERLAP,
                              2 * CHUNK_SIZE - OVERLAP + 1,
                              2 * CHUNK_SIZE + MIN_CHUNK_SIZE}}
    \cup {<<Run("a", CHUNK_SIZE - 100), Run("b", CHUNK_SIZE - 100)>>,
          <<Run(REPLACEMENT_CHARACTER, 3 * 400)>>,
          <<Run(REPLACEMENT_CHARACTER, 3 * 700)>>,
          <<Run("a", 1), Run(REPLACEMENT_CHARACTER, 3 * 400)>>,
          <<Run(E_ACUTE, 2 * 600), Run(REPLACEMENT_CHARACTER, 3 * 300)>>,
          <<Run(E_ACUTE, 2 * 450 + 1)>>}

ChunkArgs ==
    {[fn |-> "chunk_text", text |-> t] : t \in ScanTexts}
    \cup {[fn |-> "chunk_fixed_size_dedup", text |-> t] : t \in FixedTexts}

\* ------------------------------------------------------------------------
\* Command runner: validate_command_syntax
\* ------------------------------------------------------------------------

WhiteSpace == {" ", "\t", "\n"}

RECURSIVE trim_start(_)
trim_start(s) ==
    IF s # <<>> /\ Head(s) \in WhiteSpace THEN trim_start(Tail(s)) ELSE s

RECURSIVE trim_end(_)
trim_end(s) ==
    IF s # <<>> /\ s[Len(s)] \in WhiteSpace
    THEN trim_end(SubSeq(s, 1, Len(s) - 1)) ELSE s

\* str::trim
trim(s) == trim_end(trim_start(s))

\* cmd.chars().filter(|&c| c == ' ' || c == '\t').count()
CountBlanks(cmd) == Cardinality({i \in 1..Len(cmd) : cmd[i] \in {" ", "\t"}})

\* cmd.contains(ch) for one character.
ContainsChar(cmd, ch) == \E i \in 1..Len(cmd) : cmd[i] = ch

\* The test of line 14: the command has fewer than two blanks and no quote.
VerySimple(cmd) ==
    /\ CountBlanks(cmd) < 2
    /\ ~ContainsChar(cmd, "\"")
    /\ ~ContainsChar(cmd, "'")

ValidOk == <<"Ok">>
ValidErr(msg) == <<"Err", msg>>

\* The locals of the loop of lines 29-92; err is the error the loop has
\* returned, if any.
ScanStart ==
    [parens |-> 0, brackets |-> 0, braces |-> 0, in_single_quote |-> FALSE,
     in_double_quote |-> FALSE, escape_next |-> FALSE, err |-> <<>>]

\* A closing character outside quotes: the counter goes down, and below zero
\* the function returns the error.
CloseOne(st, field, msg) ==
    IF st.in_single_quote \/ st.in_double_quote THEN st
    ELSE IF st[field] - 1 < 0 THEN [st EXCEPT ![field] = @ - 1, !.err = <<msg>>]
    ELSE [st EXCEPT ![field] = @ - 1]

OpenOne(st, field) ==
    IF st.in_single_quote \/ st.in_double_quote THEN st
    ELSE [st EXCEPT ![field] = @ + 1]

\* One iteration of the loop, for the character ch.
ScanChar(st, ch) ==
    IF st.escape_next THEN [st EXCEPT !.escape_next = FALSE]
    ELSE IF ch = "\\" THEN [st EXCEPT !.escape_next = TRUE]
    ELSE IF ch = "'"
         THEN IF ~st.in_double_quote
              THEN [st EXCEPT !.in_single_quote = ~@] ELSE st
    ELSE IF ch = "\""
         THEN IF ~st.in_single_quote
              THEN [st EXCEPT !.in_double_quote = ~@] ELSE st
    ELSE IF ch = "(" THEN OpenOne(st, "parens")
    ELSE IF ch = ")" THEN CloseOne(st, "parens", "Unmatched closing parenthesis")
    ELSE IF ch = "[" THEN OpenOne(st, "brackets")
    ELSE IF ch = "]" THEN CloseOne(st, "brackets", "Unmatched closing bracket")
    ELSE IF ch = "{" THEN OpenOne(st, "braces")
    ELSE IF ch = "}" THEN CloseOne(st, "braces", "Unmatched closing brace")
    ELSE st

RECURSIVE ScanChars(_, _, _)
ScanChars(st, chars, i) ==
    IF i > Len(chars) \/ st.err # <<>> THEN st
    ELSE ScanChars(ScanChar(st, chars[i]), chars, i + 1)

S_and_and == <<"&", "&">>
S_or_or == <<"|", "|">>
S_pipe == <<"|">>
S_semicolon == <<";">>
S_awk == <<"a", "w", "k">>
S_dollar == <<"$">>
S_print == <<"{", "p", "r", "i", "n", "t">>
S_print_space == <<"{", "p", "r", "i", "n", "t", " ">>

\* The test of line 114.
EndsIncomplete(cmd) ==
    \/ ends_with(cmd, S_and_and)
    \/ ends_with(cmd, S_or_or)
    \/ ends_with(cmd, S_pipe)
    \/ ends_with(cmd, S_semicolon)

\* The test of line 119.
IncompleteAwk(cmd) ==
    /\ contains(cmd, S_awk)
    /\ \/ ends_with(cmd, S_dollar)
       \/ /\ contains(cmd, S_dollar)
          /\ ~contains(cmd, S_print)
          /\ ~contains(cmd, S_print_space)

validate_command_syntax(raw_cmd) ==
    LET cmd == trim(raw_cmd)
        st == ScanChars(ScanStart, cmd, 1)
    IN  IF VerySimple(cmd) THEN ValidOk
        ELSE IF st.err # <<>> THEN ValidErr(st.err[1])
        ELSE IF st.in_single_quote THEN ValidErr("Unclosed single quote")
        ELSE IF st.in_double_quote THEN ValidErr("Unclosed double quote")
        ELSE IF st.parens # 0 THEN ValidErr("Unmatched parentheses")
        ELSE IF st.brackets # 0 THEN ValidErr("Unmatched brackets")
        ELSE IF st.braces # 0 THEN ValidErr("Unmatched braces")
        ELSE IF EndsIncomplete(cmd)
             THEN ValidErr("Command ends with incomplete expression")
        ELSE IF IncompleteAwk(cmd)
             THEN ValidErr("Potentially incomplete awk expression")
        ELSE ValidOk

\* Commands: those of the tests of runner.rs, and shorter and longer ones
\* with a dangling operator, an open quote or an unmatched bracket.
Cmd_ls_la == <<"l", "s", " ", "-", "l", "a">>
Cmd_echo_quoted == <<"e", "c", "h", "o", " ", "'", "h", "e", "l", "l", "o", " ", "w", "o", "r", "l", "d", "'">>
Cmd_pipeline == <<"d", "u", " ", "-", "h", " ", "-", "-", "m", "a", "x", "-", "d", "e", "p", "t", "h", "=", "1", " ", "|", " ", "s", "o", "r", "t", " ", "-", "h", "r">>
Cmd_find_exec == <<"f", "i", "n", "d", " ", ".", " ", "-", "n", "a", "m", "e", " ", "'", "*", ".", "r", "s", "'", " ", "-", "e", "x", "e", "c", " ", "g", "r", "e", "p", " ", "'", "f", "n", "'", " ", "{", "}", " ", "\\", ";">>
Cmd_unclosed_quote == <<"e", "c", "h", "o", " ", "'", "h", "e", "l", "l", "o">>
Cmd_awk == <<"d", "u", " ", "-", "h", " ", "|", " ", "a", "w", "k", " ", "'", "$", "1", " ", ">">>
Cmd_ls_and == <<"l", "s", " ", "&", "&">>
Cmd_paren == <<"e", "c", "h", "o", " ", "(", "h", "e", "l", "l", "o">>
Cmd_bracket == <<"l", "s", " ", "[", " ", "-", "f", " ", "f", "i", "l", "e">>
Cmd_ls_pipe == <<"l", "s", " ", "|">>
Cmd_ls_semi == <<"l", "s", ";">>
Cmd_long_or == <<"c", "a", "t", " ", "a", " ", "b", " ", "|", "|">>
Cmd_and_space == <<" ", "m", "a", "k", "e", " ", "a", "l", "l", " ", "&", "&", " ">>
Cmd_brace == <<"e", "c", "h", "o", " ", "h", "i", " ", "}">>
Cmd_dquote == <<"e", "c", "h", "o", " ", "\"", "a">>
Cmd_long_paren == <<"e", "c", "h", "o", " ", "a", " ", "b", " ", "(", "c">>
Cmd_true == <<"t", "r", "u", "e">>
Cmd_awk_print == <<"p", "s", " ", "a", "u", "x", " ", "|", " ", "a", "w", "k", " ", "'", "{", "p", "r", "i", "n", "t", " ", "$", "2", "}", "'">>

TestValidCommands == {Cmd_ls_la, Cmd_echo_quoted, Cmd_pipeline, Cmd_find_exec}

TestInvalidCommands ==
    {Cmd_unclosed_quote, Cmd_awk, Cmd_ls_and, Cmd_paren, Cmd_bracket}

Commands ==
    TestValidCommands \cup TestInvalidCommands
    \cup {Cmd_ls_pipe, Cmd_ls_semi, Cmd_long_or, Cmd_and_space, Cmd_brace,
          Cmd_dquote, Cmd_long_paren, Cmd_true, Cmd_awk_print}

ValidateArgs == {[fn |-> "validate_command_syntax", cmd |-> c] : c \in Commands}

\* validate_command_syntax(cmd)
ValidateCall ==
    /\ f_op = "none"
    /\ f_in.fn = "validate_command_syntax"
    /\ f_op' = f_in.fn
    /\ f_out' = validate_command_syntax(f_in.cmd)
    /\ Rest(<<envvars, storevars, passvars, edits, aborted, svars, evars,
              kvars, dvars, f_in, rvars, cvars>>)

CallArgs ==
    WalkArgs \cup CollectArgs \cup FilterArgs \cup IndexArgs \cup PassArgs
    \cup ChunkArgs \cup ValidateArgs \cup ScanArgs

\* build_index_with_files on an empty store and a root without
\* sub-directories: scan_paths, then the loop over the scans; the inputs it
\* gives to generate_embeddings.
BuildIndexWithFilesCall ==
    /\ f_op = "none"
    /\ f_in.fn = "build_index_with_files"
    /\ f_op' = f_in.fn
    /\ f_out' = QueueInputs(
                    [i \in 1..Len(f_in.files) |->
                        load_and_chunk_file(OsStrToStringLossy(f_in.files[i].name),
                                            f_in.files[i].raw)],
                    1, [p \in {} |-> EmptyString], <<>>)
    /\ Rest(<<envvars, storevars, passvars, edits, aborted, svars, evars,
              kvars, dvars, f_in, rvars, cvars>>)

\* load_and_chunk_file for each of the files of the call, in their order.
ScanPathsCall ==
    /\ f_op = "none"
    /\ f_in.fn = "scan_paths"
    /\ f_op' = f_in.fn
    /\ f_out' = [i \in 1..Len(f_in.files) |->
                    load_and_chunk_file(OsStrToStringLossy(f_in.files[i].name),
                                        f_in.files[i].raw)]
    /\ Rest(<<envvars, storevars, passvars, edits, aborted, svars, evars,
              kvars, dvars, f_in, rvars, cvars>>)

\* self.chunk_text(&content, path)
ChunkTextCall ==
    /\ f_op = "none"
    /\ f_in.fn = "chunk_text"
    /\ f_op' = f_in.fn
    /\ f_out' = chunk_text(f_in.text, P_a)
    /\ Rest(<<envvars, storevars, passvars, edits, aborted, svars, evars,
              kvars, dvars, f_in, rvars, cvars>>)

\* self.chunk_fixed_size_dedup(text, path)
ChunkFixedSizeDedupCall ==
    /\ f_op = "none"
    /\ f_in.fn = "chunk_fixed_size_dedup"
    /\ f_op' = f_in.fn
    /\ f_out' = chunk_fixed_size_dedup(f_in.text, P_a)
    /\ Rest(<<envvars, storevars, passvars, edits, aborted, svars, evars,
              kvars, dvars, f_in, rvars, cvars>>)

\* build_index: the files it gives to build_index_with_files.
BuildIndexCall ==
    /\ f_op = "none"
    /\ f_in.fn = "build_index"
    /\ f_op' = f_in.fn
    /\ f_out' = BuildIndexFiles(f_in.files)
    /\ Rest(<<envvars, storevars, passvars, edits, aborted, svars, evars,
              kvars, dvars, f_in, rvars, cvars>>)

\* build_index_for_keywords: the files it gives to build_index_with_files.
BuildIndexForKeywordsCall ==
    /\ f_op = "none"
    /\ f_in.fn = "build_index_for_keywords"
    /\ f_op' = f_in.fn
    /\ f_out' = SelectForKeywords(f_in.files, f_in.keywords,
                    [p \in {f_in.files[i] : i \in 1..Len(f_in.files)} |->
                        ManyChars(p)])
    /\ Rest(<<envvars, storevars, passvars, edits, aborted, svars, evars,
              kvars, dvars, f_in, rvars, cvars>>)

\* self.filter_files_by_patterns(&files)
FilterCall ==
    /\ f_op = "none"
    /\ f_in.fn = "filter_files_by_patterns"
    /\ f_op' = f_in.fn
    /\ f_out' = FilterPathStrings(f_in.files, f_in.excludes, f_in.includes)
    /\ Rest(<<envvars, storevars, passvars, edits, aborted, svars, evars,
              kvars, dvars, f_in, rvars, cvars>>)

\* scanner.directory_overview(max_depth, max_entries)
DirectoryOverviewCall ==
    /\ f_op = "none"
    /\ f_in.fn = "directory_overview"
    /\ f_op' = f_in.fn
    /\ f_out' = directory_overview(Visible(f_in.present, f_in.unreadable),
                                   f_in.max_depth, f_in.max_entries)
    /\ Rest(<<envvars, storevars, passvars, edits, aborted, svars, evars,
              kvars, dvars, f_in, rvars, cvars>>)

\* scanner.collect_files()
CollectFilesCall ==
    /\ f_op = "none"
    /\ f_in.fn = "collect_files"
    /\ f_op' = f_in.fn
    /\ f_out' = collect_files_in(f_in.present, f_in.unreadable, f_in.fileset)
    /\ Rest(<<envvars, storevars, passvars, edits, aborted, svars, evars,
              kvars, dvars, f_in, rvars, cvars>>)

CallsInit ==
    /\ files = [p \in {} |-> T_empty]
    /\ dirs = {}
    /\ readme = FALSE
    /\ embeddings = <<>>
    /\ file_meta = [p \in {} |-> EmptyString]
    /\ pc = "off"
    /\ todo = <<>>
    /\ dir_overview = <<>>
    /\ scans = <<>>
    /\ idx = 1
    /\ inputs = <<>>
    /\ pending = <<>>
    /\ ops = <<>>
    /\ meta0 = [p \in {} |-> EmptyString]
    /\ outcome = "none"
    /\ last_query = NoQuery
    /\ passes = 0
    /\ edits = 0
    /\ aborted = {}
    /\ SearchIdle
    /\ EmbedIdle
    /\ StoreIdle
    /\ SchemaIdle
    /\ RunnerIdle
    /\ CacheIdle
    /\ f_op = "none"
    /\ f_in \in CallArgs
    /\ f_out = <<>>

CallsNext ==
    \/ DirectoryOverviewCall
    \/ CollectFilesCall
    \/ FilterCall
    \/ BuildIndexCall
    \/ BuildIndexForKeywordsCall
    \/ BuildIndexWithFilesCall
    \/ ChunkTextCall
    \/ ChunkFixedSizeDedupCall
    \/ ValidateCall
    \/ ScanPathsCall

SpecCalls == CallsInit /\ [][CallsNext]_vars

\* ------------------------------------------------------------------------
\* Properties of the indexing pass (specification Spec)
\* ------------------------------------------------------------------------

AllPathSet == {AllPaths[k] : k \in 1..Len(AllPaths)}

\* The rows stored under path p, as (id, text) pairs.
StoredFor(p) ==
    {[id |-> embeddings[k].id, text |-> embeddings[k].text] :
        k \in {j \in 1..Len(embeddings) : embeddings[j].path = p}}

ChunkRows(chunks) ==
    {[id |-> ChunkInput(chunks[k]).id, text |-> ChunkInput(chunks[k]).text] :
        k \in 1..Len(chunks)}

\* What chunking the present content of p gives.
ExpectedFor(p) == ChunkRows(chunk_text(from_utf8_lossy(files[p]), p))

\* The files the running (or just finished) pass was given.
Scanned == {todo[k] : k \in 1..Len(todo)} \cap DOMAIN files

ScanHash(p) == load_and_chunk_file(p, files[p]).hash

Oversized(p) == ByteLen(TextBytes(files[p])) > max_file_bytes

\* The pass returned Ok(()) and no store operation of it failed.
PassSucceeded ==
    /\ pc = "done"
    /\ outcome = "ok"
    /\ inputs = <<>> \/ \E k \in 1..Len(ops) : ops[k].op = "insert_embeddings"

\* The path was indexed before, from another content.
ReindexedContent(p) ==
    /\ get_file_hash(meta0, p) # None
    /\ get_file_hash(meta0, p) # Some(md5(TextBytes(files[p])))

\* C1: after a successful pass over a file (within the size cap) whose
\* content differs from what was indexed before, the embeddings stored under
\* its path are exactly the chunks of the new content.
C1_ReindexStoresExactlyNewChunks ==
    PassSucceeded =>
        \A p \in Scanned :
            (~Oversized(p) /\ ReindexedContent(p)) => StoredFor(p) = ExpectedFor(p)

\* C2: a successful pass that follows an aborted one, over unchanged files,
\* leaves every path the aborted pass had diffed as changed with the chunks
\* of its present content.
C2_RetryReembedsAbortedFile ==
    PassSucceeded =>
        \A p \in Scanned \cap aborted :
            ~Oversized(p) => StoredFor(p) = ExpectedFor(p)

WriteOps ==
    {"delete_embeddings_for_path", "upsert_file_hash", "insert_embeddings", "embed"}

Touched(p) == \E k \in 1..Len(ops) : ops[k].op \in WriteOps /\ p \in ops[k].paths

UnchangedFile(p) == get_file_hash(meta0, p) = Some(ScanHash(p))

NothingChanged ==
    /\ \A p \in Scanned : UnchangedFile(p)
    /\ get_file_hash(meta0, DirKey) = Some(md5(directory_overview(dirs, 4, 400)))

PassRunning == pc \notin {"idle", "off"}

\* C3: during and after a pass, a file whose hash equals the stored hash has
\* no embedding call, delete, hash upsert or insert, and its rows are as they
\* were; when neither a file nor the overview changed the pass writes nothing.
C3_UnchangedFileUntouched ==
    PassRunning =>
        /\ \A p \in Scanned :
              UnchangedFile(p) =>
                  /\ ~Touched(p)
                  /\ get_file_hash(file_meta, p) = get_file_hash(meta0, p)
        /\ NothingChanged =>
              /\ \A k \in 1..Len(ops) : ops[k].op \notin WriteOps
              /\ file_meta = meta0

C3_Witness ==
    /\ PassSucceeded
    /\ \E p \in Scanned :
          /\ UnchangedFile(p)
          /\ \E k \in 1..Len(ops) : ops[k] = Op("get_file_hash", {p})
          /\ \E q \in Scanned \ {p} : Touched(q) /\ StoredFor(q) # {}

\* The row was produced from the version of its path that file_meta records.
RowOfRecordedVersion(r) ==
    /\ r.path \in DOMAIN file_meta
    /\ IF r.path = DirKey
       THEN /\ r.id = <<DirKey, file_meta[DirKey]>>
            /\ r.text[1] = "DIRECTORY TREE"
            /\ md5(r.text[2]) = file_meta[DirKey]
       ELSE \E c \in Contents :
               /\ md5(TextBytes(from_utf8_lossy(c))) = file_meta[r.path]
               /\ [id |-> r.id, text |-> r.text] \in ChunkRows(chunk_text(c, r.path))

\* C4: in every reachable state every embedding row belongs to a path whose
\* file_meta hash is the hash of the content its chunk was produced from.
C4_RowsMatchRecordedHash ==
    \A k \in 1..Len(embeddings) : RowOfRecordedVersion(embeddings[k])

C4_Witness ==
    /\ pc = "done"
    /\ \E p \in Scanned :
          /\ ReindexedContent(p)
          /\ StoredFor(p) # {}
          /\ StoredFor(DirKey) # {}
          /\ \E k \in 1..Len(ops) : ops[k].op = "insert_embeddings" /\ p \in ops[k].paths

\* C5: between passes no path has a file_meta row without embeddings or
\* embeddings without a file_meta row.
C5_MetaAndEmbeddingsPaired ==
    pc \in {"idle", "done"} =>
        \A p \in AllPathSet \cup {DirKey} :
            (p \in DOMAIN file_meta) <=> (StoredFor(p) # {})

DeleteCount(p) ==
    Cardinality({k \in 1..Len(ops) :
        ops[k].op = "delete_embeddings_for_path" /\ p \in ops[k].paths})

\* C6: a path's delete precedes every insert for it, there is never more
\* than one delete per path, and a successful pass has issued exactly one
\* for every path whose stored hash differs from its content hash.
C6_OneDeleteBeforeInsert ==
    PassRunning =>
        \A p \in Scanned :
            /\ \A j \in 1..Len(ops) :
                  (ops[j].op = "insert_embeddings" /\ p \in ops[j].paths) =>
                      \E i \in 1..(j - 1) :
                          ops[i] = Op("delete_embeddings_for_path", {p})
            /\ DeleteCount(p) <= 1
            /\ (PassSucceeded /\ ~Oversized(p) /\ ReindexedContent(p)) =>
                   DeleteCount(p) = 1

\* C12: a file longer than max_file_bytes is scanned to an empty hash and no
\* chunks, and the pass has for its path no embedding input, no embedding
\* and no store operation of any kind (lookup, delete, upsert, insert).
C12_OversizedFileIgnored ==
    PassRunning =>
        \A p \in Scanned :
            Oversized(p) =>
                /\ \A k \in 1..Len(scans) :
                      scans[k].path = p =>
                          scans[k].hash = EmptyString /\ scans[k].chunks = <<>>
                /\ \A k \in 1..Len(ops) : p \notin ops[k].paths
                /\ \A k \in 1..Len(inputs) : inputs[k].path # p
                /\ \A k \in 1..Len(pending) : pending[k].path # p
                /\ get_file_hash(file_meta, p) = get_file_hash(meta0, p)

C12_Witness ==
    /\ PassSucceeded
    /\ \E p \in Scanned :
          /\ Oversized(p)
          /\ \E k \in 1..Len(scans) : scans[k].path = p
          /\ \E q \in Scanned \ {p} : Touched(q)

\* ------------------------------------------------------------------------
\* Properties of the query (specification Spec)
\* ------------------------------------------------------------------------

QueryReturned == last_query.result # <<"none">>

\* C10 as stated: for every question, a query of an empty store that returns
\* an answer returns the no-context message and makes no completion call.
C10_EmptyStoreNoCompletion ==
    (QueryReturned /\ last_query.stored = 0 /\ last_query.result[1] = "Ok") =>
        /\ last_query.result = <<"Ok", NoContextMessage>>
        /\ last_query.completions = 0

\* C10 amended: for every question that is not project-level, a query of an
\* empty store makes no completion call, and returns the no-context message
\* unless embedding the question or reading the store failed.
C10_EmptyStoreNoCompletionUnlessProjectLevel ==
    (QueryReturned /\ last_query.stored = 0
        /\ ~is_project_level(last_query.question)) =>
        /\ last_query.completions = 0
        /\ last_query.result \in {<<"Ok", NoContextMessage>>, <<"Err">>}

C10_Witness ==
    /\ last_query.stored = 0
    /\ ~is_project_level(last_query.question)
    /\ last_query.result = <<"Ok", NoContextMessage>>
    /\ last_query.context = <<>>

\* ------------------------------------------------------------------------
\* Properties of the similarity search (specification SpecSearch)
\* ------------------------------------------------------------------------

ZeroNorm(v) == SumSquares(v) = 0

ScoreOfEntry(k) == cosine_similarity(s_query, s_corpus[k].vector)

ScoreOfText(t) ==
    ScoreOfEntry(CHOOSE k \in 1..Len(s_corpus) : s_corpus[k].text = t)

AllScored == [k \in 1..Len(s_corpus) |-> Scored(ScoreOfEntry(k), s_corpus[k].text)]

\* The whole corpus sorted by descending similarity, first top_k texts.
ExactTopK ==
    LET sorted == SortScoredDesc(AllScored, 1, <<>>)
    IN  TextsOf(SubSeq(sorted, 1, Min(s_top_k, Len(sorted))))

NoZeroNorm ==
    ~ZeroNorm(s_query) /\ \A k \in 1..Len(s_corpus) : ~ZeroNorm(s_corpus[k].vector)

DistinctScores ==
    \A j, k \in 1..Len(s_corpus) :
        j # k => partial_cmp(ScoreOfEntry(j), ScoreOfEntry(k)) # "Equal"

\* C7: (for vectors of non-zero norm and pairwise different similarities)
\* the result is the whole corpus sorted by descending similarity, cut at
\* top_k.
C7_ResultIsExactTopK ==
    (s_pc = "done" /\ NoZeroNorm /\ DistinctScores) => s_results = ExactTopK

\* C8: the result has at most top_k texts and no text comes before a text
\* of greater similarity.
C8_AtMostKNonIncreasing ==
    s_pc = "done" =>
        /\ Len(s_results) <= s_top_k
        /\ \A i, j \in 1..Len(s_results) :
              i < j => ~ScoreLt(ScoreOfText(s_results[i]), ScoreOfText(s_results[j]))

\* C9: the similarity computed for a vector of zero norm is 0.
C9_ZeroNormGivesZero ==
    (s_pc = "loop" /\ s_i > 1
        /\ (ZeroNorm(s_query) \/ ZeroNorm(s_corpus[s_i - 1].vector))) =>
        /\ ~is_nan(s_score)
        /\ s_score.num = 0

\* ------------------------------------------------------------------------
\* Properties of the scanner (specification SpecScan)
\* ------------------------------------------------------------------------

Scanned1 == scans[1]

AllParagraphsEqual(paras) == \A i \in 1..Len(paras) : paras[i] = paras[1]

\* The fixed-size fallback applied to the text of the scanned file.
FallbackChunks == chunk_fixed_size_dedup(from_utf8_lossy(files[PathA]), PathA)

\* C11: the chunks scanned from one file have pairwise different texts, and
\* so have the chunks the fixed-size fallback cuts from its text; a file that
\* repeats one paragraph of at least MIN_CHUNK_SIZE bytes gives one chunk.
C11_ChunkTextsDistinct ==
    (pc = "diff" /\ Len(scans) = 1) =>
        /\ \A i, j \in 1..Len(Scanned1.chunks) :
              i # j => Scanned1.chunks[i].text # Scanned1.chunks[j].text
        /\ \A i, j \in 1..Len(FallbackChunks) :
              i # j => FallbackChunks[i].text # FallbackChunks[j].text
        /\ (AllParagraphsEqual(files[PathA])
               /\ files[PathA][1].len >= MIN_CHUNK_SIZE
               /\ ~Oversized(PathA)) =>
                  Len(Scanned1.chunks) = 1

\* A repeated paragraph was dropped.
C11_Witness ==
    /\ pc = "diff"
    /\ Len(scans) = 1
    /\ Len(files[PathA]) = MaxParas
    /\ AllParagraphsEqual(files[PathA])
    /\ files[PathA][1].len >= MIN_CHUNK_SIZE
    /\ Len(Scanned1.chunks) = 1

\* ------------------------------------------------------------------------
\* Properties of the embedding pipeline and the insert (specification
\* SpecEmbed)
\* ------------------------------------------------------------------------

SeqToBag(sq) ==
    [x \in {sq[k] : k \in 1..Len(sq)} |->
        Cardinality({k \in 1..Len(sq) : sq[k] = x})]

\* The Embedding of each input, in the order of the inputs.
ExpectedEmbeddings == generate_embeddings(inputs)

BatchRange(b) ==
    SubSeq(ExpectedEmbeddings, b * BATCH_SIZE + 1,
           Min((b + 1) * BATCH_SIZE, Len(inputs)))

GenerateSucceeded == pc = "insert" \/ (pc = "done" /\ outcome = "ok")

\* C13: when generate_embeddings succeeds its result has one Embedding per
\* input, each with the id, path and text of an input and the vector of that
\* input's text; the results of a batch are those of its inputs in some
\* order.
C13_OneEmbeddingPerInput ==
    GenerateSucceeded =>
        /\ Len(pending) = Len(inputs)
        /\ SeqToBag(pending) = SeqToBag(ExpectedEmbeddings)
        /\ \A b \in 0..((Len(inputs) - 1) \div BATCH_SIZE) :
              SeqToBag(SubSeq(pending, b * BATCH_SIZE + 1,
                              Min((b + 1) * BATCH_SIZE, Len(inputs))))
                  = SeqToBag(BatchRange(b))

\* Two batches, and calls that completed in another order than the inputs'.
C13_Witness ==
    /\ pc = "insert"
    /\ Len(inputs) > BATCH_SIZE
    /\ pending # ExpectedEmbeddings

\* C14: once an embedding call has failed, generate_embeddings returns no
\* embeddings, the pass ends with the error, and the embeddings table stays
\* as it was.
C14_FailedCallFailsPass ==
    e_failures > 0 =>
        /\ pc \in {"embed", "done"}
        /\ pending = <<>>
        /\ embeddings = e_rows0
        /\ pc = "done" => (outcome = "err" /\ e_out = <<>>)

\* The call failed in the second batch, after the first was collected.
C14_Witness ==
    /\ pc = "done"
    /\ outcome = "err"
    /\ e_failures > 0
    /\ e_base = BATCH_SIZE

\* C15: every call in flight belongs to the current batch, and the results
\* of all earlier batches have been collected.
C15_BatchesDoNotOverlap ==
    /\ \A call \in BagToSet(e_inflight) : call.batch = BatchNo
    /\ pc = "embed" => Len(e_out) = e_base

C15_Witness ==
    /\ pc = "embed"
    /\ e_base = BATCH_SIZE
    /\ e_inflight # EmptyBag

\* C16: at most 8 embedding calls are in flight.
C16_AtMostEightInFlight == BagCardinality(e_inflight) <= BUFFER_UNORDERED

\* The queue is full while inputs of the batch are still waiting.
C16_Witness ==
    /\ BagCardinality(e_inflight) = BUFFER_UNORDERED
    /\ e_started < BatchLen

InsertCalled == pc = "done" /\ pending # <<>>

InsertCommitted ==
    InsertCalled /\ \E k \in 1..Len(ops) : ops[k].op = "insert_embeddings"

\* C17: insert_embeddings either stores every element and succeeds, or
\* leaves the table as it was and returns an error to the pass.
C17_InsertAllOrError ==
    InsertCalled =>
        \/ /\ outcome = "ok"
           /\ InsertCommitted
           /\ embeddings = insert_embeddings(e_rows0, pending)
        \/ /\ outcome = "err"
           /\ embeddings = e_rows0

\* The last element of the batch with the id of element k.
LastWithId(batch, k) ==
    batch[CHOOSE j \in 1..Len(batch) :
              /\ batch[j].id = batch[k].id
              /\ \A i \in (j + 1)..Len(batch) : batch[i].id # batch[k].id]

\* C18: after a committed insert the table holds one row per id, the row of
\* an inserted id carries the vector, text and path inserted last for it,
\* rows of other ids are kept, and inserting the batch again changes nothing.
C18_UpsertById ==
    InsertCommitted =>
        /\ \A i, j \in 1..Len(embeddings) :
              embeddings[i].id = embeddings[j].id => i = j
        /\ \A k \in 1..Len(pending) :
              \E i \in 1..Len(embeddings) :
                  /\ embeddings[i].id = pending[k].id
                  /\ bincode_deserialize(embeddings[i].vector)
                         = LastWithId(pending, k).vector
                  /\ embeddings[i].text = LastWithId(pending, k).text
                  /\ embeddings[i].path = LastWithId(pending, k).path
        /\ \A i \in 1..Len(e_rows0) :
              (\A k \in 1..Len(pending) : pending[k].id # e_rows0[i].id) =>
                  \E j \in 1..Len(embeddings) : embeddings[j] = e_rows0[i]
        /\ insert_embeddings(embeddings, pending) = embeddings

\* The table held a row of an inserted id, and the batch repeats an id.
C18_Witness ==
    /\ InsertCommitted
    /\ e_rows0 = <<OldRow, OverviewRow>>
    /\ \E j, k \in 1..Len(pending) : j # k /\ pending[j].id = OldRow.id
                                      /\ pending[k].id = OldRow.id

\* ------------------------------------------------------------------------
\* Properties of the store's lock (specification SpecStore)
\* ------------------------------------------------------------------------

\* What insert_embeddings has done to the table after its first n elements.
InsertedSoFar(c) ==
    insert_embeddings(k_stable[1], SubSeq(k_op[c].batch, 1, k_i[c]))

\* C19: at most one caller is inside a store operation and it holds the
\* lock; the tables it works on are those the last finished operation left,
\* changed only by its own statements, and a scan has read exactly the rows
\* of that table.
C19_StoreOpsMutuallyExclusive ==
    /\ \A c, d \in Callers :
          (k_pc[c] = "body" /\ k_pc[d] = "body") => c = d
    /\ \A c \in Callers : k_pc[c] = "body" <=> k_lock = c
    /\ k_lock = NoCaller => <<embeddings, file_meta>> = k_stable
    /\ \A c \in Callers :
          k_pc[c] = "body" =>
              /\ file_meta = k_stable[2]
              /\ IF k_op[c].op = "insert_embeddings"
                 THEN embeddings = InsertedSoFar(c)
                 ELSE embeddings = k_stable[1]
              /\ k_op[c].op = "get_all_embeddings" =>
                    k_acc[c] = SubSeq(get_all_embeddings(k_stable[1]), 1, k_i[c])

\* Half of an insert batch is in the table while a scan waits for the lock.
C19_Witness ==
    \E c, d \in Callers :
        /\ InBody(c, "insert_embeddings")
        /\ k_i[c] > 0
        /\ k_i[c] < Len(k_op[c].batch)
        /\ embeddings # k_stable[1]
        /\ k_pc[d] = "wait"
        /\ k_op[d].op = "get_all_embeddings"

\* ------------------------------------------------------------------------
\* What a query running beside a pass can read (specification Spec)
\* ------------------------------------------------------------------------

\* What get_all_embeddings returns in the present state, for path p, as
\* (id, text) pairs.
CorpusFor(p) ==
    LET all == get_all_embeddings(embeddings)
    IN  {[id |-> all[k].id, text |-> all[k].text] :
            k \in {j \in 1..Len(all) : all[j].path = p}}

\* C20: in every state a query can read, the embeddings of one path all come
\* from one version of its content (for the overview: one tree), and an insert
\* for a path is issued only after the pass's delete for that path.
C20_OneVersionPerPath ==
    /\ \A p \in AllPathSet :
          \E c \in Contents :
              CorpusFor(p) \subseteq ChunkRows(chunk_text(from_utf8_lossy(c), p))
    /\ \A r1, r2 \in CorpusFor(DirKey) : r1 = r2
    /\ \A j \in 1..Len(ops) :
          ops[j].op = "insert_embeddings" =>
              \A p \in ops[j].paths :
                  \E i \in 1..(j - 1) :
                      ops[i] = Op("delete_embeddings_for_path", {p})

\* The second pass over a file indexed as T_two and rewritten as T_hello has
\* deleted the old rows and not yet inserted the new ones; the overview row
\* of the first pass's insert is still there.
C20_Witness ==
    /\ pc = "insert"
    /\ passes = 2
    /\ get_file_hash(meta0, PathA) = Some(md5(TextBytes(T_two)))
    /\ files[PathA] = T_hello
    /\ \E i \in 1..Len(ops) : ops[i] = Op("delete_embeddings_for_path", {PathA})
    /\ \E k \in 1..Len(pending) : pending[k].path = PathA
    /\ CorpusFor(PathA) = {}
    /\ CorpusFor(DirKey) # {}

\* ------------------------------------------------------------------------
\* Properties of opening the store (specification SpecSchema)
\* ------------------------------------------------------------------------

\* Row k as it was when the open began, with the default path where the older
\* schema had none.
StartRow(k) ==
    LET r == d_start[2][k]
    IN  EmbeddingRow(r.id, r.vector, r.text,
                     IF HasPath(d_start[1]) THEN r.path ELSE EmptyString)

Opened == d_pc = "open" /\ d_opens > 0

\* C21: after a successful open both tables, the column path and the path
\* index exist, every row there was is kept (with path '' where it had none)
\* and file_meta is as it was; an open of a migrated store changes neither
\* the schema nor a row.
C21_SetupConverges ==
    Opened =>
        /\ {"embeddings", "file_meta"} \subseteq d_schema.tables
        /\ HasPath(d_schema)
        /\ "idx_embeddings_path" \in d_schema.indexes
        /\ Len(embeddings) = Len(d_start[2])
        /\ \A k \in 1..Len(embeddings) : embeddings[k] = StartRow(k)
        /\ file_meta = d_start[3]
        /\ d_start[1] = MigratedSchema =>
              /\ d_schema = d_start[1]
              /\ embeddings = d_start[2]

\* An older database with a row was migrated, and then opened once more.
C21_Witness ==
    /\ Opened
    /\ d_opens = 2
    /\ d_failures = 0
    /\ d_start[1] = MigratedSchema
    /\ Len(embeddings) = 1
    /\ embeddings[1] = EmbeddingRow(OlderRow.id, OlderRow.vector, OlderRow.text,
                                    EmptyString)

\* ------------------------------------------------------------------------
\* Order of the steps of a pass (specification Spec)
\* ------------------------------------------------------------------------

DiffOps == {"get_file_hash", "delete_embeddings_for_path", "upsert_file_hash"}

\* C22: when a pass issues an embedding request every file has been scanned
\* and the loop over the scans has ended; no hash lookup, delete or hash
\* upsert follows an embedding request, and the insert is the pass's last
\* store operation and its only insert.
C22_ScanAndDiffBeforeEmbed ==
    /\ \A j \in 1..Len(ops) :
          ops[j].op = "embed" =>
              /\ scans = scan_paths(files, todo)
              /\ idx > Len(scans)
              /\ \A i \in (j + 1)..Len(ops) : ops[i].op \notin DiffOps
    /\ \A j \in 1..Len(ops) :
          ops[j].op = "insert_embeddings" =>
              /\ j = Len(ops)
              /\ idx > Len(scans)
              /\ \E i \in 1..(j - 1) : ops[i].op = "embed"
    /\ pc = "insert" => idx > Len(scans)

\* A pass over two files has embedded and inserted.
C22_Witness ==
    /\ pc = "done"
    /\ Len(scans) = 2
    /\ \E j \in 1..Len(ops) : ops[j] = Op("embed", {PathB})
    /\ \E j \in 1..Len(ops) : ops[j] = Op("upsert_file_hash", {PathA})
    /\ ops[Len(ops)].op = "insert_embeddings"

\* ------------------------------------------------------------------------
\* The directory overview in a pass (specification Spec)
\* ------------------------------------------------------------------------

OverviewInput ==
    EmbeddingInput(<<DirKey, dir_hash>>, DirKey, <<"DIRECTORY TREE", dir_overview>>)

OverviewChanged ==
    /\ dir_overview # <<>>
    /\ get_file_hash(meta0, DirKey) # Some(dir_hash)

OverviewQueued == \E k \in 1..Len(inputs) : inputs[k] = OverviewInput

OverviewOp(name) ==
    \E k \in 1..Len(ops) : ops[k].op = name /\ DirKey \in ops[k].paths

\* The pass has got past its overview block without an error.
OverviewBlockDone ==
    \/ pc \in {"scan", "diff", "diff_delete", "diff_upsert", "insert"}
    \/ pc = "done" /\ outcome = "ok"

\* C23: a pass deletes, queues or upserts the overview, or embeds it, only when
\* the overview is non-empty and its hash differs from the stored one, and
\* then (no error intervening) it does all three; with equal hashes it does
\* no store write and no embedding call for the synthetic path.
C23_OverviewOnlyWhenChanged ==
    PassRunning =>
        /\ (OverviewOp("delete_embeddings_for_path") \/ OverviewOp("upsert_file_hash")
              \/ OverviewOp("embed") \/ OverviewOp("insert_embeddings")
              \/ \E k \in 1..Len(inputs) : inputs[k].path = DirKey)
               => OverviewChanged
        /\ OverviewBlockDone =>
              (OverviewChanged <=>
                  /\ OverviewOp("delete_embeddings_for_path")
                  /\ OverviewQueued
                  /\ OverviewOp("upsert_file_hash"))
        /\ ~OverviewChanged => get_file_hash(file_meta, DirKey)
                                   = get_file_hash(meta0, DirKey)

\* A second pass finds another tree than the one whose hash is stored.
C23_Witness ==
    /\ OverviewBlockDone
    /\ get_file_hash(meta0, DirKey) # None
    /\ OverviewChanged
    /\ OverviewOp("upsert_file_hash")

\* ------------------------------------------------------------------------
\* Errors inside generate_embeddings (specification SpecEmbed)
\* ------------------------------------------------------------------------

\* C24: once a step of the pass has failed no later step of it runs: after a
\* failed embedding call no further embedding call is started.
C24_ErrorStopsOperation ==
    [][e_failures > 0 => e_started' <= e_started]_vars

\* ------------------------------------------------------------------------
\* Properties of the walker and of file selection (specification SpecCalls)
\* ------------------------------------------------------------------------

\* The eligible files no unreadable or ignored directory hides.
RECURSIVE UnderIgnored(_)
UnderIgnored(rel) ==
    IF rel = RootDir THEN FALSE
    ELSE \/ \E k \in 1..Len(DirUniverse) :
               DirUniverse[k].rel = rel /\ DirUniverse[k].name \in ignored_dirs
         \/ UnderIgnored(DirParent(rel))

ReadableFiles ==
    {p \in f_in.fileset :
        /\ FileDir(p) \notin f_in.unreadable
        /\ ~Beneath(FileDir(p), f_in.unreadable)
        /\ ~UnderIgnored(FileDir(p))}

\* C25: collect_files fails only when the root cannot be read; otherwise it
\* returns the eligible files of every readable directory, skipping the
\* sub-directories that cannot be read.
C25_UnreadableSubdirSkipped ==
    f_op = "collect_files" =>
        IF RootDir \in f_in.unreadable
        THEN f_out = <<"Err">>
        ELSE /\ f_out[1] = "Ok"
             /\ {f_out[2][k] : k \in 1..Len(f_out[2])} = ReadableFiles

DepthOf(rel) == IF rel = RootDir THEN 0 ELSE IF DirParent(rel) = RootDir THEN 1 ELSE 2

\* C26: directory_overview returns at most max_entries lines, each the line
\* of a different directory of the tree at its depth, none deeper than
\* max_depth and none of an ignored directory or beneath one.
C26_OverviewBounded ==
    f_op = "directory_overview" =>
        /\ Len(f_out) <= f_in.max_entries
        /\ \A i, j \in 1..Len(f_out) : f_out[i] = f_out[j] => i = j
        /\ \A i \in 1..Len(f_out) :
              /\ f_out[i][2] \in f_in.present \cup {RootDir}
              /\ f_out[i] = OverviewLine(DepthOf(f_out[i][2]), f_out[i][2])
              /\ f_out[i][1] <= f_in.max_depth
              /\ ~UnderIgnored(f_out[i][2])

\* The overview stopped at max_entries in a tree that has a directory deeper
\* than max_depth and one beneath an ignored directory.
C26_Witness ==
    /\ f_op = "directory_overview"
    /\ f_in.present = DirRels
    /\ f_in.unreadable = {}
    /\ f_in.max_depth = 1
    /\ f_in.max_entries = 2
    /\ f_out = <<OverviewLine(0, RootDir), OverviewLine(1, "src")>>

MatchesSome(path_str, patterns) ==
    \E i \in 1..Len(patterns) : matches_pattern(path_str, patterns[i])

\* The positions of fl whose path the claim selects.
Selected(fl, excludes, includes) ==
    {k \in 1..Len(fl) :
        /\ ~MatchesSome(fl[k], excludes)
        /\ includes = <<>> \/ MatchesSome(fl[k], includes)}

\* C27: filter_files_by_patterns keeps, in their order, exactly the paths that
\* match no exclude pattern and, when there are include patterns, some include
\* pattern; a path matching an exclude pattern is never kept.
C27_ExcludeWins ==
    f_op = "filter_files_by_patterns" =>
        /\ f_out = SelectSeq(f_in.files,
                      LAMBDA p : \E k \in Selected(f_in.files, f_in.excludes,
                                                   f_in.includes) :
                                     f_in.files[k] = p)
        /\ \A i \in 1..Len(f_out) : ~MatchesSome(f_out[i], f_in.excludes)
        /\ \A k \in 1..Len(f_in.files) :
              (\E i \in 1..Len(f_out) : f_out[i] = f_in.files[k])
                  <=> k \in Selected(f_in.files, f_in.excludes, f_in.includes)

\* target/x.rs matches the exclude pattern target/** and the include pattern
\* *.rs, and is dropped while ./src/b.rs is kept.
C27_Witness ==
    /\ f_op = "filter_files_by_patterns"
    /\ f_in.files = <<P_a, P_target, P_b, P_lock, P_txt>>
    /\ MatchesSome(P_target, f_in.excludes)
    /\ MatchesSome(P_target, f_in.includes)
    /\ f_out = <<P_b>>

Kept == {f_out[k] : k \in 1..Len(f_out)}

Dropped == {f_in.files[k] : k \in 1..Len(f_in.files)} \ Kept

\* The number of the query keywords the path of p contains.
KeywordCount(p) ==
    Cardinality({i \in 1..Len(f_in.keywords) :
        contains(to_lowercase(ManyChars(p)), to_lowercase(f_in.keywords[i]))})

\* C28: build_index and build_index_for_keywords give at most 200 files to the
\* pass, and no file dropped by the cap contains more of the keywords than a
\* file that was kept.
C28_ScanCappedAtMaxFiles ==
    f_op \in {"build_index", "build_index_for_keywords"} =>
        /\ Len(f_out) <= MAX_FILES
        /\ Len(f_in.files) > MAX_FILES =>
              \A d \in Dropped : \A k \in Kept : KeywordCount(d) <= KeywordCount(k)

\* C29: a step in which query or query_with_feedback returns, whether with an
\* answer, with the no-context message or with an error, leaves the embeddings
\* table and the file_meta table exactly as they were before it.
C29_QueryLeavesStoreAlone ==
    [][last_query' # NoQuery =>
          /\ embeddings' = embeddings
          /\ file_meta' = file_meta]_vars

\* An answered query over a store that holds rows and file hashes.
C29_Witness ==
    /\ QueryReturned
    /\ last_query.result[1] = "Ok"
    /\ last_query.completions = 1
    /\ last_query.stored > 0
    /\ embeddings # <<>>
    /\ DOMAIN file_meta # {}

\* The chunks of one file have pairwise distinct start_offset, under the
\* paragraph strategy and under the fixed-size strategy.
ChunkOffsetsDistinct ==
    f_op \in {"chunk_text", "chunk_fixed_size_dedup"} =>
        \A i \in 1..Len(f_out) : \A j \in 1..Len(f_out) :
            i # j => f_out[i].start_offset # f_out[j].start_offset

\* Two chunks of one file, under either strategy.
SeveralChunks ==
    /\ f_op \in {"chunk_text", "chunk_fixed_size_dedup"}
    /\ Len(f_out) >= 2

\* No two inputs of one pass have the same id.
InputIdsDistinct ==
    f_op = "build_index_with_files" =>
        \A i \in 1..Len(f_out) : \A j \in 1..Len(f_out) :
            i # j => f_out[i].id # f_out[j].id

\* C30: within one pass no two embedding inputs have the same id, the chunks
\* of one file having pairwise distinct start_offset under both chunking
\* strategies.
C30_InputIdsUnique == ChunkOffsetsDistinct /\ InputIdsDistinct

\* The command is rejected.
Rejected == f_out # <<>> /\ f_out[1] = "Err"

\* C31: validate_command_syntax returns an error for every command that,
\* trimmed, ends with a dangling operator (&&, ||, | or ;), however short.
C31_DanglingOperatorRejected ==
    (f_op = "validate_command_syntax" /\ EndsIncomplete(trim(f_in.cmd))) => Rejected

\* The command has an open quote or an unmatched parenthesis, bracket or
\* brace outside quotes when its last character has been read.
Unbalanced(cmd) ==
    LET st == ScanChars(ScanStart, cmd, 1)
    IN  \/ st.err # <<>>
        \/ st.in_single_quote \/ st.in_double_quote
        \/ st.parens # 0 \/ st.brackets # 0 \/ st.braces # 0

\* C32: validate_command_syntax returns an error for every command with an
\* unclosed quote or an unmatched parenthesis, bracket or brace outside
\* quotes, however short.
C32_UnbalancedRejected ==
    (f_op = "validate_command_syntax" /\ Unbalanced(trim(f_in.cmd))) => Rejected

\* C33: validate_command_syntax returns Ok for well-formed commands: a simple
\* command, balanced quotes, a pipeline, and find -exec with {} and an
\* escaped semicolon.
C33_WellFormedAccepted ==
    (f_op = "validate_command_syntax" /\ f_in.cmd \in TestValidCommands) =>
        f_out = ValidOk

\* The files of the call that the include and exclude patterns keep.
PassesPatterns(p) ==
    /\ ~MatchesSome(ManyChars(p), rag_exclude_patterns)
    /\ rag_include_patterns = <<>> \/ MatchesSome(ManyChars(p), rag_include_patterns)

\* The path of p contains a relevant keyword of the call, letter case aside.
MentionsKeyword(p) ==
    \E i \in 1..Len(f_in.keywords) :
        /\ \E j \in 1..Len(filter_relevant_keywords(f_in.keywords)) :
               filter_relevant_keywords(f_in.keywords)[j] = f_in.keywords[i]
        /\ contains(to_lowercase(ManyChars(p)), to_lowercase(f_in.keywords[i]))

AllFiles == {f_in.files[k] : k \in 1..Len(f_in.files)}

\* Keyword first, then patterns: the order of steps of the specification.
KeywordThenPatterns ==
    LET narrowed == {p \in AllFiles : MentionsKeyword(p)}
        base == IF narrowed = {} THEN AllFiles ELSE narrowed
    IN  {p \in base : PassesPatterns(p)}

\* Patterns first, then keyword, keeping the files the patterns kept when
\* none of them contains a keyword.
PatternsThenKeyword ==
    LET kept == {p \in AllFiles : PassesPatterns(p)}
        narrowed == {p \in kept : MentionsKeyword(p)}
    IN  IF narrowed = {} THEN kept ELSE narrowed

\* f_out is the files of set, in the order of the scan, when they are at most
\* MAX_FILES, and MAX_FILES of them otherwise.
SelectsExactly(set) ==
    IF Cardinality(set) <= MAX_FILES
    THEN f_out = SelectSeq(f_in.files, LAMBDA p : p \in set)
    ELSE /\ Len(f_out) = MAX_FILES
         /\ Kept \subseteq set

\* C34 as stated: the files build_index_for_keywords selects are those of
\* narrowing by keyword first and applying the patterns to the result.
C34_KeywordThenPatterns ==
    f_op = "build_index_for_keywords" => SelectsExactly(KeywordThenPatterns)

\* C34 amended: the files build_index_for_keywords selects are those of
\* applying the patterns first and narrowing the result by keyword, the
\* pattern-filtered files being kept when none contains a keyword.
C34_PatternsThenKeyword ==
    f_op = "build_index_for_keywords" => SelectsExactly(PatternsThenKeyword)

\* A call in which the two orders differ: the only file with a keyword is
\* dropped by the patterns, and another file is selected.
C34_Witness ==
    /\ f_op = "build_index_for_keywords"
    /\ \E p \in AllFiles : MentionsKeyword(p) /\ ~PassesPatterns(p)
    /\ KeywordThenPatterns = {}
    /\ f_out # <<>>

\* The text of the call is one paragraph longer than MAX_CHUNK_SIZE.
GiantParagraph ==
    /\ f_op = "chunk_text"
    /\ Len(f_in.text) = 1
    /\ f_in.text[1].len > MAX_CHUNK_SIZE

\* C35: a text of a single paragraph longer than the maximum chunk size is
\* chunked by the fixed-size windows: several chunks, none longer than a
\* window, the ones chunk_fixed_size_dedup gives.
C35_GiantParagraphIsWindowed ==
    GiantParagraph =>
        /\ Len(f_out) >= 2
        /\ \A k \in 1..Len(f_out) : ByteLen(f_out[k].text) <= CHUNK_SIZE
        /\ f_out = chunk_fixed_size_dedup(f_in.text, P_a)

\* C36: the hash the scanner reports is a digest of the file's raw bytes: two
\* versions of a file whose raw bytes differ, neither above the size cap,
\* get different hashes.
C36_HashOfRawBytes ==
    f_op = "scan_paths" =>
        \A i \in 1..Len(f_out) : \A j \in 1..Len(f_out) :
            (/\ f_out[i].hash # EmptyString
             /\ f_out[j].hash # EmptyString
             /\ TextBytes(f_in.files[i].raw) # TextBytes(f_in.files[j].raw))
            => f_out[i].hash # f_out[j].hash

\* The windows of the call and the bytes they are cut from.
CallBytes == TextBytes(f_in.text)
CallWindows == FixedWindows(CallBytes, 0, <<>>)

\* C38: chunk_fixed_size_dedup returns for every text; the window start grows
\* at every iteration, the windows leave no byte of the text out, and every
\* chunk starts at a window start and holds the bytes of the text from its
\* start_offset on.
C38_WindowsAdvanceAndCover ==
    f_op = "chunk_fixed_size_dedup" =>
        /\ \A k \in 1..(Len(CallWindows) - 1) :
               /\ CallWindows[k + 1].start > CallWindows[k].start
               /\ CallWindows[k + 1].start <= CallWindows[k].end
        /\ \A k \in 1..Len(CallWindows) :
               /\ CallWindows[k].start < CallWindows[k].end
               /\ is_char_boundary(CallBytes, CallWindows[k].start)
               /\ is_char_boundary(CallBytes, CallWindows[k].end)
        /\ CallBytes # <<>> =>
               /\ CallWindows[1].start = 0
               /\ CallWindows[Len(CallWindows)].end = ByteLen(CallBytes)
        /\ \A c \in 1..Len(f_out) :
               /\ \E k \in 1..Len(CallWindows) :
                      f_out[c].start_offset = CallWindows[k].start
               /\ f_out[c].text =
                      Slice(CallBytes, f_out[c].start_offset,
                            f_out[c].start_offset + ByteLen(f_out[c].text))

\* A text of three-byte characters cut into two windows whose edges were
\* both moved: the first ends behind byte CHUNK_SIZE, the second starts
\* before byte CHUNK_SIZE - OVERLAP + 2.
C38_Witness ==
    /\ f_op = "chunk_fixed_size_dedup"
    /\ Len(CallWindows) >= 2
    /\ CallWindows[1].end > CHUNK_SIZE
    /\ CallWindows[2].start < CallWindows[1].end - OVERLAP
    /\ Len(f_out) >= 2

\* The paths a pass may write: the overview's, and the scanned files whose
\* non-empty hash differs from the hash stored when the pass began.
WritablePaths ==
    {DirKey} \cup
    {scans[k].path : k \in {j \in 1..Len(scans) :
        /\ scans[j].hash # EmptyString
        /\ get_file_hash(meta0, scans[j].path) # Some(scans[j].hash)}}

\* The rows of path p, in the order of the table.
RowsOf(rows, p) == SelectSeq(rows, LAMBDA r : r.path = p)

\* C37: no step of an indexing pass changes the embeddings rows or the
\* file_meta row of a path other than the overview's and the scanned files
\* whose non-empty hash differs from the stored one; the rows of a path that
\* is not scanned in the pass stay as they are.
C37_OtherPathsUntouched ==
    [][\A p \in AllPathSet \ WritablePaths' :
          /\ RowsOf(embeddings', p) = RowsOf(embeddings, p)
          /\ get_file_hash(file_meta', p) = get_file_hash(file_meta, p)]_vars

\* A pass that indexed a new file has ended, and the rows and the hash of
\* another path, stored by an earlier pass, are still there.
C37_Witness ==
    /\ PassSucceeded
    /\ passes = 2
    /\ \E p \in AllPathSet \ WritablePaths :
          /\ StoredFor(p) # {}
          /\ get_file_hash(file_meta, p) # None
          /\ \E q \in Scanned :
                 /\ q \in WritablePaths
                 /\ \E k \in 1..Len(ops) :
                        ops[k].op = "insert_embeddings" /\ q \in ops[k].paths

\* A pass has ended after a file was removed from the tree, and the rows and
\* the hash of the removed file are still stored.
RemovedFileKeepsRows ==
    /\ PassSucceeded
    /\ passes = 2
    /\ \E p \in AllPathSet \ DOMAIN files :
          /\ p \notin WritablePaths
          /\ StoredFor(p) # {}
          /\ get_file_hash(file_meta, p) # None

\* ---------------------------------------------------------------------------
\* confirm_and_run and confirm_and_run_multi_step (src/src/runner.rs), step
\* by step.  assess_command, require_additional_confirmation and
\* copy_to_clipboard are called but not defined here, and the prompts are
\* answered by the user: each of them is an input of the step that calls it.
\* ---------------------------------------------------------------------------

\* Nothing of the indexer, the store or the search is in use.
NothingIndexed ==
    /\ files = [p \in {} |-> T_empty]
    /\ dirs = {}
    /\ readme = FALSE
    /\ embeddings = <<>>
    /\ file_meta = [p \in {} |-> EmptyString]
    /\ pc = "off"
    /\ todo = <<>>
    /\ dir_overview = <<>>
    /\ scans = <<>>
    /\ idx = 1
    /\ inputs = <<>>
    /\ pending = <<>>
    /\ ops = <<>>
    /\ meta0 = [p \in {} |-> EmptyString]
    /\ outcome = "none"
    /\ last_query = NoQuery
    /\ passes = 0
    /\ edits = 0
    /\ aborted = {}
    /\ SearchIdle
    /\ EmbedIdle
    /\ StoreIdle
    /\ SchemaIdle
    /\ CallIdle

RunnerFns == {"confirm_and_run", "confirm_and_run_multi_step"}

\* Confirm::interact()? and require_additional_confirmation(..)?: the user
\* says yes or no, or the prompt cannot be read.
PromptAnswers == {"yes", "no", "Err"}

\* What assess_command can return: blocked or not, with or without warnings.
Assessments ==
    {[blocked |-> b, warnings |-> w] : b \in BOOLEAN, w \in {<<>>, <<"warning">>}}

Did(step, answer) == [step |-> step, answer |-> answer]

\* Where the function goes after a prompt: on with next for yes, return Ok(())
\* for no, and the ? returns the error.
AfterPrompt(answer, next) == IF answer = "yes" THEN next ELSE "done"

PromptResult(answer) ==
    CASE answer = "yes" -> "none"
      [] answer = "no" -> "Ok"
      [] OTHER -> "Err"

AfterValidationPrintsOnly(result) == "clipboard"

\* if let Err(validation_error) = validate_command_syntax(cmd) { ..; return Ok(()) }
AfterValidation(result) == IF result = ValidOk THEN "clipboard" ELSE "done"

\* if assessment.blocked { ..; return Ok(()) }, then
\* if !assessment.warnings.is_empty() { require_additional_confirmation }
AfterAssessment(assessment) ==
    IF assessment.blocked THEN "done"
    ELSE IF assessment.warnings # <<>> THEN "confirm"
    ELSE "run_prompt"

RunnerRest ==
    Rest(<<envvars, storevars, passvars, edits, aborted, svars, evars,
           kvars, dvars, fvars, cvars, r_fn, r_cmd, r_config>>)

RunnerInit ==
    /\ NothingIndexed
    /\ CacheIdle
    /\ r_fn \in RunnerFns
    /\ r_cmd \in Commands
    /\ r_config \in BOOLEAN
    /\ r_pc = IF r_fn = "confirm_and_run_multi_step" THEN "accept" ELSE "validate"
    /\ r_assessment = None
    /\ r_log = <<>>
    /\ r_result = "none"

\* confirm_and_run_multi_step: Confirm "Accept this command?"
AcceptStep ==
    /\ r_pc = "accept"
    /\ \E answer \in PromptAnswers :
          /\ r_log' = Append(r_log, Did("accept", answer))
          /\ r_pc' = AfterPrompt(answer, "validate")
          /\ r_result' = PromptResult(answer)
    /\ UNCHANGED r_assessment
    /\ RunnerRest

\* validate_command_syntax(cmd), and the return on its error
ValidateStep ==
    /\ r_pc = "validate"
    /\ LET result == validate_command_syntax(r_cmd)
       IN  /\ r_log' = Append(r_log, Did("validate", result[1]))
           /\ r_pc' = AfterValidation(result)
           /\ r_result' = IF AfterValidation(result) = "done" THEN "Ok" ELSE "none"
    /\ UNCHANGED r_assessment
    /\ RunnerRest

\* if config.copy_to_clipboard { clipboard::copy_to_clipboard(cmd) }: its
\* error is printed and nothing else.
ClipboardStep ==
    /\ r_pc = "clipboard"
    /\ IF r_config
       THEN \E answer \in {"Ok", "Err"} :
               r_log' = Append(r_log, Did("copy_to_clipboard", answer))
       ELSE r_log' = r_log
    /\ r_pc' = "assess"
    /\ UNCHANGED <<r_assessment, r_result>>
    /\ RunnerRest

\* let assessment = assess_command(cmd, config.safe_mode), and the two tests
\* of the assessment
AssessStep ==
    /\ r_pc = "assess"
    /\ \E assessment \in Assessments :
          /\ r_assessment' = Some(assessment)
          /\ r_log' = Append(r_log, Did("assess_command",
                          IF assessment.blocked THEN "blocked" ELSE "allowed"))
          /\ r_pc' = AfterAssessment(assessment)
          /\ r_result' = IF assessment.blocked THEN "Ok" ELSE "none"
    /\ RunnerRest

\* let proceed = require_additional_confirmation(&assessment)?
ConfirmStep ==
    /\ r_pc = "confirm"
    /\ \E answer \in PromptAnswers :
          /\ r_log' = Append(r_log, Did("require_additional_confirmation", answer))
          /\ r_pc' = AfterPrompt(answer, "run_prompt")
          /\ r_result' = PromptResult(answer)
    /\ UNCHANGED r_assessment
    /\ RunnerRest

\* Confirm "Run this command?"
RunPromptStep ==
    /\ r_pc = "run_prompt"
    /\ \E answer \in PromptAnswers :
          /\ r_log' = Append(r_log, Did("run_prompt", answer))
          /\ r_pc' = AfterPrompt(answer, "spawn")
          /\ r_result' = PromptResult(answer)
    /\ UNCHANGED r_assessment
    /\ RunnerRest

\* Command::new("sh").arg("-c").arg(cmd).status()?: the shell ends with
\* success or not, or could not be started.
SpawnStep ==
    /\ r_pc = "spawn"
    /\ \E status \in {"success", "failure", "Err"} :
          /\ r_log' = Append(r_log, Did("sh", status))
          /\ r_result' = IF status = "Err" THEN "Err" ELSE "Ok"
    /\ r_pc' = "done"
    /\ UNCHANGED r_assessment
    /\ RunnerRest

RunnerNext ==
    \/ AcceptStep
    \/ ValidateStep
    \/ ClipboardStep
    \/ AssessStep
    \/ ConfirmStep
    \/ RunPromptStep
    \/ SpawnStep

SpecRunner == RunnerInit /\ [][RunnerNext]_vars

\* The place of a step in the log, or 0.
LogPos(step, answer) ==
    IF \E k \in 1..Len(r_log) : r_log[k] = Did(step, answer)
    THEN CHOOSE k \in 1..Len(r_log) : r_log[k] = Did(step, answer)
    ELSE 0

Spawned == \E k \in 1..Len(r_log) : r_log[k].step = "sh"

\* Every gate was passed, in the order of the claim, before the shell.
GatesPassedInOrder ==
    /\ validate_command_syntax(r_cmd) = ValidOk
    /\ r_assessment # None
    /\ ~r_assessment[1].blocked
    /\ r_fn = "confirm_and_run_multi_step" =>
          /\ LogPos("accept", "yes") > 0
          /\ LogPos("accept", "yes") < LogPos("validate", "Ok")
    /\ LogPos("validate", "Ok") > 0
    /\ LogPos("validate", "Ok") < LogPos("assess_command", "allowed")
    /\ r_assessment[1].warnings # <<>> =>
          /\ LogPos("assess_command", "allowed")
                 < LogPos("require_additional_confirmation", "yes")
          /\ LogPos("require_additional_confirmation", "yes")
                 < LogPos("run_prompt", "yes")
    /\ LogPos("assess_command", "allowed") < LogPos("run_prompt", "yes")
    /\ r_log[Len(r_log)].step = "sh"
    /\ LogPos("run_prompt", "yes") = Len(r_log) - 1

\* A gate said no: the command is rejected, the validation finds an error,
\* the assessment blocks, or a confirmation is refused.
GateFailed ==
    \E k \in 1..Len(r_log) :
        r_log[k] \in {Did("accept", "no"), Did("validate", "Err"),
                      Did("assess_command", "blocked"),
                      Did("require_additional_confirmation", "no"),
                      Did("run_prompt", "no")}

\* A prompt could not be read.
PromptUnread ==
    \E k \in 1..Len(r_log) :
        r_log[k] \in {Did("accept", "Err"),
                      Did("require_additional_confirmation", "Err"),
                      Did("run_prompt", "Err")}

\* C39: confirm_and_run and confirm_and_run_multi_step start the shell only
\* after every gate was passed, in order: the validation returned Ok, the
\* assessment is not blocked, the typed confirmation was given when the
\* assessment has warnings, and the user said yes to the run prompt.  When a
\* gate says no, nothing is run and the function returns Ok; a prompt that
\* cannot be read runs nothing either.
C39_SpawnOnlyAfterGates ==
    /\ Spawned => GatesPassedInOrder
    /\ GateFailed => ~Spawned /\ r_pc = "done" /\ r_result = "Ok"
    /\ PromptUnread => ~Spawned /\ r_pc = "done"

\* The shell ran a command whose assessment had warnings, in both functions'
\* order of gates, and the function returned Ok.
C39_Witness ==
    /\ Spawned
    /\ r_pc = "done"
    /\ r_result = "Ok"
    /\ r_assessment # None
    /\ r_assessment[1].warnings # <<>>
    /\ LogPos("require_additional_confirmation", "yes") > 0
    /\ r_fn = "confirm_and_run_multi_step"

\* A call ended at a gate that said no, having run nothing.
GateStoppedCall == GateFailed /\ r_pc = "done" /\ ~Spawned

\* ---------------------------------------------------------------------------
\* The explain cache (src/presentation/src/cli.rs): one file, read and written
\* by load_cached_explain and save_cached_explain.  The file's content is the
\* format it was written in, with the cache written.  The file system's own
\* errors are left out.
\* ---------------------------------------------------------------------------

EXPLAIN_CACHE_SECS == 604800

MaxSaves == 2
MaxTicks == 3

\* The clock moves in steps of half the cache's lifetime.
ClockStep == EXPLAIN_CACHE_SECS \div 2

ExplainPrompts == {"explain ls", "explain grep"}
ExplainResponses == {"lists files", "searches text"}

\* ExplainCacheFile::default()
DefaultCache == <<>>

ExplainCacheEntry(prompt, response, timestamp) ==
    [prompt |-> prompt, response |-> response, timestamp |-> timestamp]

\* bincode::serialize(&cache): bincode's bytes
bincode_serialize_cache(cache) == [format |-> "bincode", entries |-> cache]

\* serde_json::to_string_pretty(&cache): a JSON text
to_string_pretty(cache) == [format |-> "json", entries |-> cache]

\* bincode::deserialize::<ExplainCacheFile>(&data): bincode's bytes give the
\* cache back; a JSON text is no bincode encoding of a cache (its first eight
\* bytes, read as the length of entries, run past the end of the data).
bincode_deserialize_cache(data) ==
    IF data.format = "bincode" THEN <<"Ok", data.entries>> ELSE <<"Err">>

\* .unwrap_or_default()
unwrap_or_default(result) ==
    IF result[1] = "Ok" THEN result[2] ELSE DefaultCache

\* cache.entries.retain(|entry| now - entry.timestamp < 604800)
RetainFresh(entries, now) ==
    SelectSeq(entries, LAMBDA entry : now - entry.timestamp < EXPLAIN_CACHE_SECS)

\* for entry in &cache.entries { if entry.prompt == prompt { return Some } }
FindExact(entries, prompt) ==
    IF \E k \in 1..Len(entries) : entries[k].prompt = prompt
    THEN LET k == CHOOSE k \in 1..Len(entries) :
                     /\ entries[k].prompt = prompt
                     /\ \A j \in 1..(k - 1) : entries[j].prompt # prompt
         IN  Some(entries[k].response)
    ELSE None

\* load_cached_explain(prompt): the file it leaves and the value it returns
load_cached_explain(file, now, prompt) ==
    IF file = None
    THEN [file |-> file, result |-> None]
    ELSE LET cache == unwrap_or_default(bincode_deserialize_cache(file[1]))
             fresh == RetainFresh(cache, now)
         IN  [file |-> Some(bincode_serialize_cache(fresh)),
              result |-> FindExact(fresh, prompt)]

\* save_cached_explain(prompt, response): the file it leaves
save_cached_explain(file, now, prompt, response) ==
    LET cache == IF file # None
                 THEN unwrap_or_default(bincode_deserialize_cache(file[1]))
                 ELSE DefaultCache
    IN  Some(to_string_pretty(
            Append(cache, ExplainCacheEntry(prompt, response, now))))

CacheRest ==
    Rest(<<envvars, storevars, passvars, edits, aborted, svars, evars,
           kvars, dvars, fvars, rvars>>)

CacheInit ==
    /\ NothingIndexed
    /\ RunnerIdle
    /\ CacheIdle

SaveCachedExplain ==
    /\ Len(c_saves) < MaxSaves
    /\ \E prompt \in ExplainPrompts, response \in ExplainResponses :
          /\ c_file' = save_cached_explain(c_file, c_now, prompt, response)
          /\ c_saves' = Append(c_saves, ExplainCacheEntry(prompt, response, c_now))
          /\ c_ret' = Some([fn |-> "save_cached_explain", prompt |-> prompt,
                            result |-> Some(response)])
    /\ UNCHANGED c_now
    /\ CacheRest

LoadCachedExplain ==
    /\ \E prompt \in ExplainPrompts :
          LET loaded == load_cached_explain(c_file, c_now, prompt)
          IN  /\ c_file' = loaded.file
              /\ c_ret' = Some([fn |-> "load_cached_explain", prompt |-> prompt,
                                result |-> loaded.result])
    /\ UNCHANGED <<c_now, c_saves>>
    /\ CacheRest

\* Time passes.
ClockTick ==
    /\ c_now < MaxTicks * ClockStep
    /\ c_now' = c_now + ClockStep
    /\ UNCHANGED <<c_file, c_saves, c_ret>>
    /\ CacheRest

CacheNext ==
    \/ SaveCachedExplain
    \/ LoadCachedExplain
    \/ ClockTick

SpecCache == CacheInit /\ [][CacheNext]_vars

\* The saves of a prompt, in order.
SavesOf(prompt) == SelectSeq(c_saves, LAMBDA entry : entry.prompt = prompt)

\* The entries of the cache file, whatever its format.
FileEntries == IF c_file = None THEN <<>> ELSE c_file[1].entries

\* C40: the explain cache round-trips.  A load of a prompt that was saved
\* once, less than seven days ago, returns the response saved, and after a
\* save the entries saved earlier for other prompts, less than seven days
\* ago, are still in the file.
C40_ExplainCacheRoundTrip ==
    c_ret # None =>
        /\ c_ret[1].fn = "load_cached_explain" =>
              LET saves == SavesOf(c_ret[1].prompt)
              IN  (Len(saves) = 1 /\ c_now - saves[1].timestamp < EXPLAIN_CACHE_SECS)
                      => c_ret[1].result = Some(saves[1].response)
        /\ c_ret[1].fn = "save_cached_explain" =>
              \A k \in 1..Len(c_saves) :
                  (/\ c_saves[k].prompt # c_ret[1].prompt
                   /\ c_now - c_saves[k].timestamp < EXPLAIN_CACHE_SECS)
                      => \E j \in 1..Len(FileEntries) : FileEntries[j] = c_saves[k]

\* A load right after the save of its prompt found nothing.
LoadMissesSavedPrompt ==
    /\ c_ret # None
    /\ c_ret[1].fn = "load_cached_explain"
    /\ Len(SavesOf(c_ret[1].prompt)) = 1
    /\ c_now = SavesOf(c_ret[1].prompt)[1].timestamp
    /\ c_ret[1].result = None

\* A save left a file without the entry saved for another prompt just before.
SaveDropsEarlierEntry ==
    /\ c_ret # None
    /\ c_ret[1].fn = "save_cached_explain"
    /\ Len(c_saves) = 2
    /\ c_saves[1].prompt # c_saves[2].prompt
    /\ c_saves[1].timestamp = c_now
    /\ FileEntries = <<c_saves[2]>>

====
